---- MODULE Spec2Model ----
(***************************************************************************)
(* Persistence adapter (db.js) and the admin request handlers (server.js)  *)
(* of the product-catalog backend.                                         *)
(*                                                                         *)
(* The process is single threaded and every handler body is synchronous,   *)
(* so one request is one step.  A handler is the composition of the        *)
(* adapter calls it makes; each adapter call maps a call state (the        *)
(* in-memory database, the database file, the adapter's inTransaction      *)
(* flag, the engine's open transaction, the foreign-key pragma and the     *)
(* calls made so far) to the next one.                                     *)
(*                                                                         *)
(* Text is a sequence of one-character strings, so that trim, lower-case,  *)
(* String(n) and the engine's numeric affinity are computed.               *)
(***************************************************************************)
EXTENDS Integers, Sequences, FiniteSets, TLC

VARIABLES
    mem,            \* the in-memory database image (sql.js Database)
    file,           \* the content of the database file DB_PATH
    inTransaction,  \* the adapter's flag (db.js createAdapter)
    foreignKeys,    \* the connection's PRAGMA foreign_keys
    fkDefault,      \* the engine build's default for PRAGMA foreign_keys
    sessions,       \* the admin ids held by live session cookies
    uploads,        \* the image files present in the uploads directory
    nextUpload,     \* the next file name multer hands out
    disk,           \* the writes of DB_PATH that succeed before the disk fails
    last            \* the last request and its response

vars == <<mem, file, inTransaction, foreignKeys, fkDefault, sessions, uploads,
          nextUpload, disk, last>>

----------------------------------------------------------------------------
(* Bounds of the model.                                                    *)

\* Requests are taken while the audit log holds fewer rows than this:
\* one bound for each specification.
MaxAuditTx == 3
MaxAuditStock == 3
MaxAuditDelete == 4
MaxAuditAdmins == 3
MaxAuditImport == 3
MaxAuditRoundTrip == 3
MaxAuditLedger == 4
MaxAuditUpdate == 3
\* Image files handed out by the upload middleware.
MaxUploads == 2

----------------------------------------------------------------------------
(* Values.                                                                 *)

\* SQL NULL / JS null in an integer-valued position.
NULL == -1
\* The result of comparing an integer column with text that is not numeric.
NoMatch == -2

\* A disk on which every write of the database file succeeds.
NoLimit == -3

Max(a, b) == IF a >= b THEN a ELSE b

RECURSIVE SeqToSet(_)
SeqToSet(s) == IF s = <<>> THEN {} ELSE {Head(s)} \cup SeqToSet(Tail(s))

Digits == <<"0", "1", "2", "3", "4", "5", "6", "7", "8", "9">>
UpperCase == <<"A", "B", "C", "D", "E", "F", "G", "H", "I", "J", "K", "L", "M",
               "N", "O", "P", "Q", "R", "S", "T", "U", "V", "W", "X", "Y", "Z">>
LowerCase == <<"a", "b", "c", "d", "e", "f", "g", "h", "i", "j", "k", "l", "m",
               "n", "o", "p", "q", "r", "s", "t", "u", "v", "w", "x", "y", "z">>

IsDigit(c) == \E i \in 1..10 : Digits[i] = c
DigitValue(c) == (CHOOSE i \in 1..10 : Digits[i] = c) - 1
IsSpace(c) == c = " "

\* String.prototype.toLowerCase on one character
LowerChar(c) ==
    IF \E i \in 1..26 : UpperCase[i] = c
    THEN LowerCase[CHOOSE i \in 1..26 : UpperCase[i] = c]
    ELSE c

\* [a-z0-9\s-]
IsSlugChar(c) ==
    \/ \E i \in 1..26 : LowerCase[i] = c
    \/ IsDigit(c)
    \/ IsSpace(c)
    \/ c = "-"

RECURSIVE TrimLeft(_)
TrimLeft(s) ==
    IF s # <<>> /\ IsSpace(Head(s)) THEN TrimLeft(Tail(s)) ELSE s

RECURSIVE TrimRight(_)
TrimRight(s) ==
    IF s # <<>> /\ IsSpace(s[Len(s)])
    THEN TrimRight(SubSeq(s, 1, Len(s) - 1))
    ELSE s

\* String.prototype.trim
Trim(s) == TrimRight(TrimLeft(s))

ToLowerCase(s) == [i \in 1..Len(s) |-> LowerChar(s[i])]

\* .replace(/[^a-z0-9\s-]/g, '')
RECURSIVE StripNonSlug(_)
StripNonSlug(s) ==
    IF s = <<>> THEN <<>>
    ELSE IF IsSlugChar(Head(s)) THEN <<Head(s)>> \o StripNonSlug(Tail(s))
    ELSE StripNonSlug(Tail(s))

\* .replace(/\s+/g, '-')
RECURSIVE SpacesToHyphen(_)
SpacesToHyphen(s) ==
    IF s = <<>> THEN <<>>
    ELSE IF IsSpace(Head(s)) THEN <<"-">> \o SpacesToHyphen(TrimLeft(s))
    ELSE <<Head(s)>> \o SpacesToHyphen(Tail(s))

\* .replace(/-+/g, '-')
RECURSIVE CollapseHyphens(_)
CollapseHyphens(s) ==
    IF s = <<>> THEN <<>>
    ELSE IF Head(s) = "-" /\ Len(s) > 1 /\ s[2] = "-" THEN CollapseHyphens(Tail(s))
    ELSE <<Head(s)>> \o CollapseHyphens(Tail(s))

\* A slugify that strips the other characters last
slugifyStripsLast(value) ==
    StripNonSlug(CollapseHyphens(SpacesToHyphen(ToLowerCase(Trim(value)))))

\* slugify: trim, lower case, strip, blanks to hyphen, collapse hyphens
slugify(value) ==
    CollapseHyphens(SpacesToHyphen(StripNonSlug(ToLowerCase(Trim(value)))))

\* String(n) for a non-negative integer
RECURSIVE JsString(_)
JsString(n) ==
    IF n < 10 THEN <<Digits[n + 1]>>
    ELSE JsString(n \div 10) \o <<Digits[(n % 10) + 1]>>

RECURSIVE DecimalValue(_)
DecimalValue(s) ==
    IF s = <<>> THEN 0
    ELSE DecimalValue(SubSeq(s, 1, Len(s) - 1)) * 10 + DigitValue(s[Len(s)])

\* The integer a run of decimal digits, with blanks around it, denotes.
IsDecimalText(s) ==
    /\ Trim(s) # <<>>
    /\ \A i \in 1..Len(Trim(s)) : IsDigit(Trim(s)[i])

\* SQLite compares an INTEGER column with bound text by applying numeric
\* affinity to the text: '01' and ' 1' compare equal to 1, '1abc' to nothing.
NumericAffinity(text) ==
    IF IsDecimalText(text) THEN DecimalValue(Trim(text)) ELSE NoMatch

----------------------------------------------------------------------------
(* The schema (db.js migrate) and the statements the handlers prepare.     *)
(* A statement maps the database image to [ok, db, rowid]: ok is FALSE     *)
(* when the engine raises a constraint error, and then db is the image     *)
(* unchanged (the engine undoes a failed statement).  fk is the            *)
(* connection's PRAGMA foreign_keys at the time of the statement.          *)

EmptyDb ==
    [admins |-> {}, categories |-> {}, products |-> {}, variants |-> {},
     inventory |-> {}, audit |-> {},
     seq |-> [admins |-> 0, categories |-> 0, products |-> 0, variants |-> 0,
              inventory |-> 0, audit |-> 0]]

StmtOk(db, rowid) == [ok |-> TRUE, db |-> db, rowid |-> rowid]
StmtFail(db) == [ok |-> FALSE, db |-> db, rowid |-> NULL]

Ids(rows) == {r.id : r \in rows}

\* INSERT INTO admins (email, password_hash, name, role, created_at) VALUES
\* (?, ?, ?, 'admin', ?): email TEXT UNIQUE NOT NULL.
\* password is the password whose bcrypt hash the row stores.
InsertAdmin(db, fk, email, password, name) ==
    IF \E a \in db.admins : a.email = email THEN StmtFail(db)
    ELSE LET id == db.seq.admins + 1 IN
         StmtOk([db EXCEPT !.admins = @ \cup {[id |-> id, email |-> email,
                                               password |-> password, name |-> name,
                                               role |-> "admin"]},
                           !.seq.admins = id], id)

\* UPDATE admins SET password_hash = ?, name = ?, role = 'admin' WHERE id = ?
UpdateAdminPassword(db, fk, id, password, name) ==
    StmtOk([db EXCEPT !.admins =
              {IF a.id = id THEN [a EXCEPT !.password = password, !.name = name,
                                              !.role = "admin"]
               ELSE a : a \in @}],
           NULL)

\* INSERT INTO categories (name, slug, ...): name and slug UNIQUE
InsertCategory(db, fk, name, slug) ==
    IF \E c \in db.categories : c.name = name \/ c.slug = slug THEN StmtFail(db)
    ELSE LET id == db.seq.categories + 1 IN
         StmtOk([db EXCEPT !.categories = @ \cup {[id |-> id, name |-> name, slug |-> slug]},
                           !.seq.categories = id], id)

\* INSERT INTO products (...): category_id REFERENCES categories(id)
InsertProduct(db, fk, title, image, category_id, status) ==
    IF fk /\ category_id # NULL /\ category_id \notin Ids(db.categories) THEN StmtFail(db)
    ELSE LET id == db.seq.products + 1 IN
         StmtOk([db EXCEPT !.products = @ \cup {[id |-> id, title |-> title, image |-> image,
                                                 category_id |-> category_id, status |-> status]},
                           !.seq.products = id], id)

\* INSERT INTO variants (...): sku UNIQUE (NULLs are distinct),
\* product_id NOT NULL REFERENCES products(id).  A NULL sku is <<>>.
InsertVariant(db, fk, product_id, sku, stock_qty) ==
    IF \/ sku # <<>> /\ \E v \in db.variants : v.sku = sku
       \/ fk /\ product_id \notin Ids(db.products)
    THEN StmtFail(db)
    ELSE LET id == db.seq.variants + 1 IN
         StmtOk([db EXCEPT !.variants = @ \cup {[id |-> id, product_id |-> product_id,
                                                 sku |-> sku, stock_qty |-> stock_qty]},
                           !.seq.variants = id], id)

\* INSERT INTO inventory_adjustments (variant_id, delta_qty, reason, performed_by, created_at)
InsertAdjustment(db, fk, variant_id, delta_qty, performed_by) ==
    IF fk /\ (\/ variant_id \notin Ids(db.variants)
              \/ performed_by # NULL /\ performed_by \notin Ids(db.admins))
    THEN StmtFail(db)
    ELSE LET id == db.seq.inventory + 1 IN
         StmtOk([db EXCEPT !.inventory = @ \cup {[id |-> id, variant_id |-> variant_id,
                                                  delta_qty |-> delta_qty,
                                                  performed_by |-> performed_by]},
                           !.seq.inventory = id], id)

\* INSERT INTO audit_log (admin_id, action, entity, entity_id, details_json, created_at)
InsertAudit(db, fk, admin_id, action, entity, entity_id) ==
    IF fk /\ admin_id # NULL /\ admin_id \notin Ids(db.admins) THEN StmtFail(db)
    ELSE LET id == db.seq.audit + 1 IN
         StmtOk([db EXCEPT !.audit = @ \cup {[id |-> id, admin_id |-> admin_id, action |-> action,
                                              entity |-> entity, entity_id |-> entity_id]},
                           !.seq.audit = id], id)

\* A handler that leaves the products to the schema's ON DELETE SET NULL
ClearProductCategorySkipped(db, fk, id) == StmtOk(db, NULL)

\* UPDATE products SET category_id = NULL WHERE category_id = ?
ClearProductCategory(db, fk, id) ==
    StmtOk([db EXCEPT !.products =
              {IF p.category_id = id THEN [p EXCEPT !.category_id = NULL] ELSE p : p \in @}],
           NULL)

\* DELETE FROM categories WHERE id = ?   (products.category_id ON DELETE SET NULL)
DeleteCategoryRow(db, fk, id) ==
    LET cleared == IF fk /\ id \in Ids(db.categories)
                   THEN ClearProductCategory(db, fk, id).db ELSE db
    IN  StmtOk([cleared EXCEPT !.categories = {c \in @ : c.id # id}], NULL)

\* DELETE FROM variants WHERE <cond>   (inventory_adjustments ON DELETE CASCADE)
DeleteVariantRows(db, fk, gone) ==
    [db EXCEPT !.variants = {v \in @ : v.id \notin gone},
               !.inventory = IF fk THEN {a \in @ : a.variant_id \notin gone} ELSE @]

\* DELETE FROM products WHERE id = ?   (variants.product_id ON DELETE CASCADE)
DeleteProductRow(db, fk, id) ==
    LET owned == IF fk /\ id \in Ids(db.products)
                 THEN {v.id : v \in {w \in db.variants : w.product_id = id}} ELSE {}
        cascaded == DeleteVariantRows(db, fk, owned)
    IN  StmtOk([cascaded EXCEPT !.products = {p \in @ : p.id # id}], NULL)

\* A schema whose audit_log.admin_id is declared ON DELETE CASCADE
DeleteAdminRowCascades(db, fk, id) ==
    LET hit == fk /\ id \in Ids(db.admins) IN
    StmtOk([db EXCEPT
              !.admins = {a \in @ : a.id # id},
              !.inventory = IF hit
                  THEN {IF a.performed_by = id THEN [a EXCEPT !.performed_by = NULL] ELSE a : a \in @}
                  ELSE @,
              !.audit = IF hit THEN {a \in @ : a.admin_id # id} ELSE @],
           NULL)

\* DELETE FROM admins WHERE id = ?
\* (inventory_adjustments.performed_by, audit_log.admin_id ON DELETE SET NULL)
DeleteAdminRow(db, fk, id) ==
    LET hit == fk /\ id \in Ids(db.admins) IN
    StmtOk([db EXCEPT
              !.admins = {a \in @ : a.id # id},
              !.inventory = IF hit
                  THEN {IF a.performed_by = id THEN [a EXCEPT !.performed_by = NULL] ELSE a : a \in @}
                  ELSE @,
              !.audit = IF hit
                  THEN {IF a.admin_id = id THEN [a EXCEPT !.admin_id = NULL] ELSE a : a \in @}
                  ELSE @],
           NULL)

\* UPDATE variants SET stock_qty = ?, updated_at = ? WHERE id = ?
UpdateVariantStock(db, fk, id, qty) ==
    StmtOk([db EXCEPT !.variants =
              {IF v.id = id THEN [v EXCEPT !.stock_qty = qty] ELSE v : v \in @}],
           NULL)

\* An UPDATE of categories on a table without its UNIQUE constraints
UpdateCategoryRowUnchecked(db, fk, id, name, slug) ==
    StmtOk([db EXCEPT !.categories =
               {IF c.id = id THEN [c EXCEPT !.name = name, !.slug = slug] ELSE c : c \in @}],
           NULL)

\* UPDATE categories SET name = ?, slug = ?, ... WHERE id = ?
UpdateCategoryRow(db, fk, id, name, slug) ==
    IF \E c \in db.categories : c.id # id /\ (c.name = name \/ c.slug = slug)
    THEN StmtFail(db)
    ELSE StmtOk([db EXCEPT !.categories =
                   {IF c.id = id THEN [c EXCEPT !.name = name, !.slug = slug] ELSE c : c \in @}],
                NULL)

\* UPDATE products SET title = ?, ..., image = ?, category_id = ?, status = ?, ... WHERE id = ?
UpdateProductRow(db, fk, id, title, image, category_id, status) ==
    IF fk /\ id \in Ids(db.products) /\ category_id # NULL
          /\ category_id \notin Ids(db.categories)
    THEN StmtFail(db)
    ELSE StmtOk([db EXCEPT !.products =
                   {IF p.id = id
                    THEN [p EXCEPT !.title = title, !.image = image,
                                   !.category_id = category_id, !.status = status]
                    ELSE p : p \in @}],
                NULL)

\* UPDATE products SET status = ?, updated_at = ? WHERE id = ?
UpdateProductStatus(db, fk, id, status) ==
    StmtOk([db EXCEPT !.products =
              {IF p.id = id THEN [p EXCEPT !.status = status] ELSE p : p \in @}],
           NULL)

\* UPDATE variants SET sku = ?, ..., stock_qty = ?, is_active = ?, ... WHERE id = ?
UpdateVariantRow(db, fk, id, sku, stock_qty) ==
    IF sku # <<>> /\ \E v \in db.variants : v.id # id /\ v.sku = sku
    THEN StmtFail(db)
    ELSE StmtOk([db EXCEPT !.variants =
                   {IF v.id = id THEN [v EXCEPT !.sku = sku, !.stock_qty = stock_qty] ELSE v :
                       v \in @}],
                NULL)

\* DELETE FROM variants WHERE product_id = ?
DeleteVariantsOfProduct(db, fk, product_id) ==
    StmtOk(DeleteVariantRows(db, fk, {v.id : v \in {w \in db.variants :
                                                     w.product_id = product_id}}),
           NULL)

\* DELETE FROM variants WHERE id = ?
DeleteVariantRow(db, fk, id) == StmtOk(DeleteVariantRows(db, fk, {id}), NULL)

\* prepare(sql).get(id) on a table keyed by id: the row, or no row
HasRow(rows, id) == \E r \in rows : r.id = id
GetRow(rows, id) == CHOOSE r \in rows : r.id = id

----------------------------------------------------------------------------
(* The adapter (db.js createAdapter).  A call state is what one adapter    *)
(* call reads and writes; events lists the engine and file operations      *)
(* performed so far in the current request.                                *)

CallState(m, f, inTx, fk, fkd) ==
    [mem |-> m, file |-> f, inTransaction |-> inTx, open |-> FALSE, snap |-> m,
     foreignKeys |-> fk, fkDefault |-> fkd, events |-> <<>>, thrown |-> FALSE,
     disk |-> NoLimit, auditError |-> FALSE, faults |-> {}]

\* A persist that catches the error of the file write
persistSwallows(s) ==
    IF s.disk = 0
    THEN [s EXCEPT !.foreignKeys = s.fkDefault,
                   !.events = Append(@, "persist-error")]
    ELSE [s EXCEPT !.file = s.mem, !.foreignKeys = s.fkDefault,
                   !.disk = IF @ = NoLimit THEN @ ELSE @ - 1,
                   !.events = Append(@, IF s.open THEN "persist-in-tx" ELSE "persist")]

\* persist(): db.export() then fs.writeFileSync(DB_PATH, ...).
\* Database.export() of sql.js closes the connection and opens it again,
\* so connection pragmas (foreign_keys) return to the build's default.
\* fs.writeFileSync throws when the disk takes no more writes: the file
\* keeps its content and the error leaves persist.
persist(s) ==
    IF s.disk = 0
    THEN [s EXCEPT !.foreignKeys = s.fkDefault,
                   !.thrown = TRUE,
                   !.events = Append(@, "persist-error")]
    ELSE [s EXCEPT !.file = s.mem,
                   !.foreignKeys = s.fkDefault,
                   !.disk = IF @ = NoLimit THEN @ ELSE @ - 1,
                   !.events = Append(@, IF s.open THEN "persist-in-tx" ELSE "persist")]

\* pragma('foreign_keys = ON'): db.exec of the directive, nothing else
pragma(s, on) == [s EXCEPT !.foreignKeys = on, !.events = Append(@, "pragma")]

\* A run that leaves the write of the file to a later call
runDefersPersist(s, r) ==
    IF s.thrown THEN s
    ELSE IF ~r.ok THEN [s EXCEPT !.thrown = TRUE, !.events = Append(@, "run-error")]
    ELSE [s EXCEPT !.mem = r.db, !.events = Append(@, "run")]

\* run that writes the file after every statement, transaction or not
runPersistsAlways(s, r) ==
    IF s.thrown THEN s
    ELSE IF ~r.ok THEN [s EXCEPT !.thrown = TRUE, !.events = Append(@, "run-error")]
    ELSE persist([s EXCEPT !.mem = r.db, !.events = Append(@, "run")])

\* prepare(sql).run(...) where r is the statement applied to s.mem.
\* stmt.step() throws on a constraint error; otherwise the image changes
\* and the adapter persists unless its flag says a transaction is active.
run(s, r) ==
    IF s.thrown THEN s
    ELSE IF ~r.ok THEN [s EXCEPT !.thrown = TRUE, !.events = Append(@, "run-error")]
    ELSE LET t == [s EXCEPT !.mem = r.db, !.events = Append(@, "run")]
         IN  IF ~t.inTransaction THEN persist(t) ELSE t

\* exec(sql) of the adapter, for sql that changes no row (schema creation)
exec(s) ==
    LET t == [s EXCEPT !.events = Append(@, "exec")]
    IN  IF ~t.inTransaction THEN persist(t) ELSE t

\* A wrapper that begins a transaction of its own inside another
txEnterBeginsNested(s) ==
    IF s.thrown THEN s
    ELSE [s EXCEPT !.inTransaction = TRUE, !.open = TRUE, !.snap = s.mem,
                   !.events = Append(@, "BEGIN")]

\* transaction(fn)(...) up to the call of fn: a wrapper invoked inside a
\* transaction calls fn directly; otherwise it sets the flag and begins.
txEnter(s) ==
    IF s.thrown \/ s.inTransaction THEN s
    ELSE [s EXCEPT !.inTransaction = TRUE, !.open = TRUE, !.snap = s.mem,
                   !.events = Append(@, "BEGIN")]

\* A wrapper whose catch clears the flag and throws without ROLLBACK
txLeaveKeepsWrites(s, r) ==
    IF s.thrown THEN s
    ELSE IF s.inTransaction THEN r
    ELSE IF r.thrown
    THEN [r EXCEPT !.inTransaction = FALSE]
    ELSE persist([r EXCEPT !.open = FALSE, !.inTransaction = FALSE,
                           !.events = Append(@, "COMMIT")])

\* transaction(fn)(...) after fn: s is the state the wrapper was invoked
\* in, r the state fn left.  COMMIT, clear the flag and persist; or, when
\* fn threw, ROLLBACK, clear the flag and throw again.  When persist throws
\* the catch runs ROLLBACK with no transaction active: that throws in turn,
\* the committed rows stay and the error leaves the wrapper.
\* faults names the engine calls that throw in this invocation: "COMMIT"
\* (the transaction stays open), "ROLLBACK" (the engine has ended the
\* transaction itself and undone its writes, as it does after an error such
\* as SQLITE_FULL or SQLITE_NOMEM: 'cannot rollback - no transaction is
\* active').  The catch assigns the flag after ROLLBACK, so it is skipped
\* when ROLLBACK throws.
txLeave(s, r) ==
    IF s.thrown THEN s
    ELSE IF s.inTransaction THEN r
    ELSE IF r.thrown \/ "COMMIT" \in r.faults
    THEN LET c == IF r.thrown THEN r
                  ELSE [r EXCEPT !.thrown = TRUE, !.events = Append(@, "COMMIT-error")]
         IN  IF "ROLLBACK" \in r.faults
             THEN [c EXCEPT !.mem = r.snap, !.open = FALSE,
                            !.events = Append(@, "ROLLBACK-error")]
             ELSE [c EXCEPT !.mem = r.snap, !.open = FALSE, !.inTransaction = FALSE,
                            !.events = Append(@, "ROLLBACK")]
    ELSE LET p == persist([r EXCEPT !.open = FALSE, !.inTransaction = FALSE,
                                    !.events = Append(@, "COMMIT")])
         IN  IF p.thrown THEN [p EXCEPT !.events = Append(@, "ROLLBACK-error")] ELSE p

\* A logAudit without try/catch
logAuditRethrows(s, adminId, action, entity, entityId) ==
    IF s.thrown THEN s
    ELSE LET r == run(s, InsertAudit(s.mem, s.foreignKeys,
                                     IF adminId = 0 THEN NULL ELSE adminId,
                                     action, entity, entityId))
         IN  [r EXCEPT !.auditError = r.thrown]

\* logAudit: the insert runs inside try/catch, the error is only logged.
\* adminId || null; entityId ? String(entityId) : null, given here as text.
logAudit(s, adminId, action, entity, entityId) ==
    IF s.thrown THEN s
    ELSE LET r == run(s, InsertAudit(s.mem, s.foreignKeys,
                                     IF adminId = 0 THEN NULL ELSE adminId,
                                     action, entity, entityId))
         IN  [r EXCEPT !.thrown = FALSE, !.auditError = r.thrown]

----------------------------------------------------------------------------
(* Start-up (db.js initDb, server.js startServer).                         *)

seed ==
    <<
      [name |-> <<"L", "a", "m", "i", "n", "a", "t", "i", "o", "n">>,
       slug |-> <<"l", "a", "m", "i", "n", "a", "t", "i", "o", "n">>],
      [name |-> <<"B", "i", "n", "d", "i", "n", "g">>,
       slug |-> <<"b", "i", "n", "d", "i", "n", "g">>],
      [name |-> <<"F", "i", "l", "e", "s", " ", "&", " ", "F", "o", "l", "d", "e", "r", "s">>,
       slug |-> <<"f", "i", "l", "e", "s", "-", "f", "o", "l", "d", "e", "r", "s">>],
      [name |-> <<"I", "D", " ", "C", "a", "r", "d", " ", "&", " ", "L", "a", "n", "y", "a", "r", "d", "s">>,
       slug |-> <<"i", "d", "-", "c", "a", "r", "d", "s", "-", "l", "a", "n", "y", "a", "r", "d", "s">>],
      [name |-> <<"I", "D", " ", "C", "a", "r", "d", "s">>,
       slug |-> <<"i", "d", "-", "c", "a", "r", "d">>],
      [name |-> <<"P", "h", "o", "t", "o", " ", "M", "e", "d", "i", "a", " ", "&", " ", "I", "n", "k", "s">>,
       slug |-> <<"p", "h", "o", "t", "o", "-", "m", "e", "d", "i", "a", "-", "i", "n", "k", "s">>],
      [name |-> <<"P", "r", "i", "n", "t", "i", "n", "g", " ", "S", "u", "p", "p", "l", "i", "e", "s">>,
       slug |-> <<"p", "r", "i", "n", "t", "i", "n", "g", "-", "s", "u", "p", "p", "l", "i", "e", "s">>],
      [name |-> <<"S", "c", "h", "o", "o", "l", " ", "S", "t", "a", "t", "i", "o", "n", "e", "r", "y">>,
       slug |-> <<"s", "c", "h", "o", "o", "l", "-", "s", "t", "a", "t", "i", "o", "n", "e", "r", "y">>],
      [name |-> <<"S", "u", "b", "l", "i", "m", "a", "t", "i", "o", "n">>,
       slug |-> <<"s", "u", "b", "l", "i", "m", "a", "t", "i", "o", "n">>],
      [name |-> <<"N", "o", "t", "e", " ", "C", "o", "u", "n", "t", "i", "n", "g">>,
       slug |-> <<"n", "o", "t", "e", "-", "c", "o", "u", "n", "t", "i", "n", "g">>],
      [name |-> <<"C", "o", "r", "p", "o", "r", "a", "t", "e", " ", "G", "i", "f", "t", "i", "n", "g">>,
       slug |-> <<"c", "o", "r", "p", "o", "r", "a", "t", "e", "-", "g", "i", "f", "t", "i", "n", "g">>]
    >>

RECURSIVE InsertSeeds(_, _)
InsertSeeds(s, items) ==
    IF items = <<>> THEN s
    ELSE InsertSeeds(run(s, InsertCategory(s.mem, s.foreignKeys,
                                           Head(items).name, Head(items).slug)),
                     Tail(items))

\* A seeding that does not look at the table first
seedCategoriesUnguarded(s) == txLeave(s, InsertSeeds(txEnter(s), seed))

\* seedCategories: nothing when the table has a row, else one transaction
seedCategories(s) ==
    IF s.mem.categories # {} THEN s
    ELSE txLeave(s, InsertSeeds(txEnter(s), seed))

\* The bootstrap administrator of the environment (ADMIN_EMAIL, ADMIN_PASSWORD)
BootstrapEmail == "root@shop"
BootstrapPassword == "pw-env"
\* ADMIN_NAME is not set: process.env.ADMIN_NAME || 'Administrator'
BootstrapName == "Administrator"

\* An insert-if-absent that leaves a row with the configured email as it is
ensureBootstrapAdminKeepsExisting(s) ==
    IF \E a \in s.mem.admins : a.email = BootstrapEmail
    THEN s
    ELSE run(s, InsertAdmin(s.mem, s.foreignKeys, BootstrapEmail, BootstrapPassword,
                            BootstrapName))

\* ensureBootstrapAdmin: update the row with the configured email, or insert it
ensureBootstrapAdmin(s) ==
    IF \E a \in s.mem.admins : a.email = BootstrapEmail
    THEN LET existing == CHOOSE a \in s.mem.admins : a.email = BootstrapEmail
         IN  run(s, UpdateAdminPassword(s.mem, s.foreignKeys, existing.id,
                                        BootstrapPassword, BootstrapName))
    ELSE run(s, InsertAdmin(s.mem, s.foreignKeys, BootstrapEmail, BootstrapPassword,
                            BootstrapName))

\* initDb on the database file f, then ensureBootstrapAdmin
startServer(f, fkd) ==
    ensureBootstrapAdmin(
        seedCategories(exec(pragma(CallState(f, f, FALSE, fkd, fkd), TRUE))))

----------------------------------------------------------------------------
(* Requests.  One step is one request, from the session check to the       *)
(* response.                                                               *)

Init ==
    /\ fkDefault \in BOOLEAN
    /\ LET s == startServer(EmptyDb, fkDefault) IN
       /\ mem = s.mem
       /\ file = s.file
       /\ inTransaction = s.inTransaction
       /\ foreignKeys = s.foreignKeys
    /\ sessions = {}
    /\ uploads = {}
    /\ nextUpload = 1
    /\ disk = NoLimit
    /\ last = [op |-> "start", admin |-> 0, id |-> <<>>, status |-> 0,
               events |-> <<>>, arg |-> 0, ret |-> 0, auditError |-> FALSE]

\* The call state a request starts in
Entry == [CallState(mem, file, inTransaction, foreignKeys, fkDefault) EXCEPT !.disk = disk]

\* The database, file and adapter after the request's last adapter call
Leave(s) ==
    /\ mem' = s.mem
    /\ file' = s.file
    /\ inTransaction' = s.inTransaction
    /\ foreignKeys' = s.foreignKeys
    /\ disk' = s.disk
    /\ UNCHANGED fkDefault

\* The response.  An error that leaves the handler while it was about to
\* answer 200 reaches the framework's error handler, which answers 500.
Respond(op, admin, id, status, s, arg, ret) ==
    last' = [op |-> op, admin |-> admin, id |-> id,
             status |-> IF s.thrown /\ status = 200 THEN 500 ELSE status,
             events |-> s.events, arg |-> arg, ret |-> ret,
             auditError |-> s.auditError]

\* Session cookies a request can carry: a live session, or none (0)
Cookies == sessions \cup {0}

\* A guard that trusts the session without looking up its admin row
AuthorizedBySession(sid) == sid # 0

\* requireAdmin: the session names an admin row that exists
Authorized(sid) == sid # 0 /\ HasRow(mem.admins, sid)

\* requireAdmin turning the request away: 401, and a session whose admin
\* row is gone is destroyed.  The response record keeps in ret the admin
\* id of the session the request came with (0: none).
Unauthorized(op, sid, id) ==
    /\ ~Authorized(sid)
    /\ sessions' = sessions \ {sid}
    /\ Leave(Entry)
    /\ Respond(op, 0, id, 401, Entry, 0, sid)
    /\ UNCHANGED <<uploads, nextUpload>>

\* Requests are taken while the audit log holds fewer than max rows
AuditRoom(max) == mem.seq.audit < max

\* POST /api/admin/login
Login(email, password) ==
   
    /\ LET found == \E a \in mem.admins : a.email = email
           admin == CHOOSE a \in mem.admins : a.email = email
           ok == found /\ admin.password = password
           matchesEnv == email = BootstrapEmail /\ password = BootstrapPassword
           s1 == IF ~ok /\ matchesEnv THEN ensureBootstrapAdmin(Entry) ELSE Entry
           bootstrap == IF ok \/ ~matchesEnv THEN 0 ELSE IF found THEN 2 ELSE 1
           row == CHOOSE a \in s1.mem.admins : a.email = email
           s2 == logAudit(s1, row.id, "login", "admin", JsString(row.id))
       IN  IF ~ok /\ ~matchesEnv
           THEN /\ Leave(Entry)
                /\ Respond("login", 0, <<>>, 401, Entry, 0, 0)
                /\ UNCHANGED sessions
           ELSE IF s1.thrown \/ ~\E a \in s1.mem.admins : a.email = email
           THEN /\ Leave(s1)
                /\ Respond("login", 0, <<>>, 500, s1, bootstrap, 0)
                /\ UNCHANGED sessions
           ELSE /\ Leave(s2)
                /\ Respond("login", row.id, <<>>, 200, s2, bootstrap, 0)
                /\ sessions' = sessions \cup {row.id}
    /\ UNCHANGED <<uploads, nextUpload>>

\* The process is started again on the database file: initDb, then
\* ensureBootstrapAdmin.  The sessions of the default MemoryStore are gone.
Restart ==
    /\ disk = NoLimit
    /\ LET s == startServer(file, fkDefault) IN
       /\ Leave(s)
       /\ Respond("restart", 0, <<>>, 0, s,
                  IF \E a \in file.admins : a.email = BootstrapEmail THEN 2 ELSE 1, 0)
    /\ sessions' = {}
    /\ UNCHANGED <<uploads, nextUpload>>

\* The disk that holds DB_PATH takes n more writes of the file and then
\* refuses every write (disk full, read-only remount).
DiskFills(n) ==
    /\ disk = NoLimit
    /\ disk' = n
    /\ last' = [op |-> "diskFills", admin |-> 0, id |-> <<>>, status |-> 0,
                events |-> <<>>, arg |-> n, ret |-> 0, auditError |-> FALSE]
    /\ UNCHANGED <<mem, file, inTransaction, foreignKeys, fkDefault, sessions,
                   uploads, nextUpload>>

\* A request without a live admin session, for any route behind requireAdmin
RequireAdminRejects(op, sid) ==
    /\ sid \in Cookies
    /\ Unauthorized(op, sid, <<>>)

\* POST /api/admin/categories
CreateCategory(sid, nameIn, slugIn) ==
    /\ sid \in Cookies /\ Authorized(sid)
    /\ LET name == Trim(nameIn)
           slug == IF slugIn # <<>> THEN slugify(slugIn) ELSE slugify(name)
           s1 == run(Entry, InsertCategory(mem, foreignKeys, name, slug))
           rowid == InsertCategory(mem, foreignKeys, name, slug).rowid
           s2 == logAudit(s1, sid, "create", "category", JsString(rowid))
       IN  IF name = <<>>
           THEN /\ Leave(Entry)
                /\ Respond("createCategory", sid, <<>>, 400, Entry, name, 0)
           ELSE IF s1.thrown
           THEN /\ Leave([s1 EXCEPT !.thrown = FALSE])
                /\ Respond("createCategory", sid, <<>>, 400, s1, name, 0)
           ELSE /\ Leave(s2)
                /\ Respond("createCategory", sid, <<>>, 200, s2, name, rowid)
    /\ UNCHANGED <<sessions, uploads, nextUpload>>

\* DELETE /api/admin/categories/:id
DeleteCategory(sid, idp) ==
    /\ sid \in Cookies /\ Authorized(sid)
    /\ LET id == NumericAffinity(idp)
           s1 == run(Entry, ClearProductCategory(mem, foreignKeys, id))
           s2 == run(s1, DeleteCategoryRow(s1.mem, s1.foreignKeys, id))
           s3 == logAudit(s2, sid, "delete", "category", idp)
       IN  IF ~HasRow(mem.categories, id)
           THEN /\ Leave(Entry)
                /\ Respond("deleteCategory", sid, idp, 404, Entry, 0, 0)
           ELSE /\ Leave(s3)
                /\ Respond("deleteCategory", sid, idp, IF s3.thrown THEN 500 ELSE 200, s3, 0,
                           Cardinality({p \in mem.products : p.category_id = id}))
    /\ UNCHANGED <<sessions, uploads, nextUpload>>

\* variantList.forEach(variant => insertVariant.run(productId, ...)):
\* variant.sku || null, Number(variant.stockQty) || 0
RECURSIVE InsertVariants(_, _, _)
InsertVariants(s, productId, variantList) ==
    IF variantList = <<>> THEN s
    ELSE InsertVariants(
             run(s, InsertVariant(s.mem, s.foreignKeys, productId,
                                  Head(variantList).sku, Head(variantList).stockQty)),
             productId, Tail(variantList))

\* The function POST /api/admin/products wraps in db.transaction
CreateProductFn(s, title, image, categoryId, status, variantList) ==
    LET r == InsertProduct(s.mem, s.foreignKeys, Trim(title), image,
                           IF categoryId # 0 THEN categoryId ELSE NULL,
                           IF status # "" THEN status ELSE "draft")
    IN  InsertVariants(run(s, r), r.rowid, variantList)

\* POST /api/admin/products (upload.single('image') stores the file first)
CreateProduct(sid, title, hasDescription, hasFile, categoryId, status, variantList) ==
    /\ sid \in Cookies /\ Authorized(sid)
    /\ hasFile => nextUpload <= MaxUploads
    /\ uploads' = IF hasFile THEN uploads \cup {nextUpload} ELSE uploads
    /\ nextUpload' = IF hasFile THEN nextUpload + 1 ELSE nextUpload
    /\ LET s1 == txEnter(Entry)
           s2 == CreateProductFn(s1, title, nextUpload, categoryId, status, variantList)
           s3 == txLeave(Entry, s2)
           productId == mem.seq.products + 1
           s4 == logAudit(s3, sid, "create", "product", JsString(productId))
       IN  IF title = <<>> \/ ~hasDescription \/ ~hasFile
           THEN /\ Leave(Entry)
                /\ Respond("createProduct", sid, <<>>, 400, Entry, variantList, 0)
           ELSE IF s3.thrown
           THEN /\ Leave([s3 EXCEPT !.thrown = FALSE])
                /\ Respond("createProduct", sid, <<>>, 500, s3, variantList, 0)
           ELSE /\ Leave(s4)
                /\ Respond("createProduct", sid, <<>>, 200, s4, variantList, productId)
    /\ UNCHANGED sessions

\* DELETE /api/admin/products/:id.  unlinkFails: fs.unlinkSync throws; the
\* response record keeps 1 in arg where it did.
DeleteProduct(sid, idp, unlinkFails) ==
    /\ sid \in Cookies /\ Authorized(sid)
    /\ LET id == NumericAffinity(idp)
           product == GetRow(mem.products, id)
           hasImage == product.image # 0 /\ product.image \in uploads
           s1 == run(Entry, DeleteProductRow(mem, foreignKeys, id))
           s2 == logAudit(s1, sid, "delete", "product", idp)
       IN  IF ~HasRow(mem.products, id)
           THEN /\ Leave(Entry)
                /\ Respond("deleteProduct", sid, idp, 404, Entry, 0, 0)
                /\ UNCHANGED uploads
           ELSE IF hasImage /\ unlinkFails
           THEN /\ Leave(Entry)
                /\ Respond("deleteProduct", sid, idp, 500, Entry, 1, 0)
                /\ UNCHANGED uploads
           ELSE /\ Leave([s2 EXCEPT !.thrown = FALSE])
                /\ Respond("deleteProduct", sid, idp, IF s1.thrown THEN 500 ELSE 200, s2, 0, 0)
                /\ uploads' = IF hasImage THEN uploads \ {product.image} ELSE uploads
    /\ UNCHANGED <<sessions, nextUpload>>

----------------------------------------------------------------------------
(* JSON values of a request body and Number(value).                        *)

JsNum(n) == [t |-> "number", n |-> n, s |-> <<>>, b |-> FALSE]
JsStr(s) == [t |-> "string", n |-> 0, s |-> s, b |-> FALSE]
JsBool(b) == [t |-> "boolean", n |-> 0, s |-> <<>>, b |-> b]
JsNull == [t |-> "null", n |-> 0, s |-> <<>>, b |-> FALSE]
JsUndefined == [t |-> "undefined", n |-> 0, s |-> <<>>, b |-> FALSE]

NaN == [nan |-> TRUE, n |-> 0]
Num(n) == [nan |-> FALSE, n |-> n]

\* Number(text): blank text is 0, an optionally signed run of decimal
\* digits is its value, other text of this alphabet is NaN
StringToNumber(text) ==
    LET t == Trim(text) IN
    IF t = <<>> THEN Num(0)
    ELSE IF Head(t) = "-" /\ IsDecimalText(Tail(t)) /\ Trim(Tail(t)) = Tail(t)
    THEN Num(0 - DecimalValue(Tail(t)))
    ELSE IF Head(t) = "+" /\ IsDecimalText(Tail(t)) /\ Trim(Tail(t)) = Tail(t)
    THEN Num(DecimalValue(Tail(t)))
    ELSE IF IsDecimalText(t) THEN Num(DecimalValue(t))
    ELSE NaN

\* Number(value)
Number(v) ==
    CASE v.t = "number" -> Num(v.n)
      [] v.t = "string" -> StringToNumber(v.s)
      [] v.t = "boolean" -> Num(IF v.b THEN 1 ELSE 0)
      [] v.t = "null" -> Num(0)
      [] OTHER -> NaN

----------------------------------------------------------------------------

\* The function POST /api/admin/variants/:id/adjust-stock wraps in db.transaction
AdjustStockFn(s, id, newQty, deltaQty, adminId) ==
    LET s1 == run(s, UpdateVariantStock(s.mem, s.foreignKeys, id, newQty))
    IN  run(s1, InsertAdjustment(s1.mem, s1.foreignKeys, id, deltaQty, adminId))

\* A new quantity that is not clamped at zero
NewQtyUnclamped(stock_qty, deltaQty) == stock_qty + deltaQty

\* Math.max(0, (variant.stock_qty || 0) + deltaQty)
NewQty(stock_qty, deltaQty) == Max(0, stock_qty + deltaQty)

\* A test that lets a zero delta through
DeltaRejectedNaNOnly(deltaQty) == deltaQty.nan

\* Number.isNaN(deltaQty) || deltaQty === 0
DeltaRejected(deltaQty) == deltaQty.nan \/ deltaQty.n = 0

\* POST /api/admin/variants/:id/adjust-stock
AdjustStock(sid, idp, delta) ==
    /\ sid \in Cookies /\ Authorized(sid)
    /\ LET deltaQty == Number(delta)
           id == NumericAffinity(idp)
           variant == GetRow(mem.variants, id)
           newQty == NewQty(variant.stock_qty, deltaQty.n)
           s1 == txEnter(Entry)
           s2 == AdjustStockFn(s1, id, newQty, deltaQty.n, sid)
           s3 == txLeave(Entry, s2)
           s4 == logAudit(s3, sid, "adjust_stock", "variant", idp)
       IN  IF DeltaRejected(deltaQty)
           THEN /\ Leave(Entry)
                /\ Respond("adjustStock", sid, idp, 400, Entry, delta, 0)
           ELSE IF ~HasRow(mem.variants, id)
           THEN /\ Leave(Entry)
                /\ Respond("adjustStock", sid, idp, 404, Entry, delta, 0)
           ELSE IF s3.thrown
           THEN /\ Leave([s3 EXCEPT !.thrown = FALSE])
                /\ Respond("adjustStock", sid, idp, 500, s3, delta, 0)
           ELSE /\ Leave(s4)
                /\ Respond("adjustStock", sid, idp, 200, s4, delta, newQty)
    /\ UNCHANGED <<sessions, uploads, nextUpload>>

\* POST /api/admin/admins
CreateAdmin(sid, email, password) ==
    /\ sid \in Cookies /\ Authorized(sid)
    /\ LET r == InsertAdmin(mem, foreignKeys, email, password, "")
           s1 == run(Entry, r)
           s2 == logAudit(s1, sid, "create", "admin", JsString(r.rowid))
       IN  IF email = "" \/ password = ""
           THEN /\ Leave(Entry)
                /\ Respond("createAdmin", sid, <<>>, 400, Entry, email, 0)
           ELSE IF s1.thrown
           THEN /\ Leave([s1 EXCEPT !.thrown = FALSE])
                /\ Respond("createAdmin", sid, <<>>, 400, s1, email, 0)
           ELSE /\ Leave(s2)
                /\ Respond("createAdmin", sid, <<>>, 200, s2, email, r.rowid)
    /\ UNCHANGED <<sessions, uploads, nextUpload>>

\* String(req.admin.id) === String(id): the session's admin id, printed,
\* against the text of the :id parameter
IsOwnAccount(adminId, idp) == JsString(adminId) = idp

\* DELETE /api/admin/admins/:id
DeleteAdmin(sid, idp) ==
    /\ sid \in Cookies /\ Authorized(sid)
    /\ LET s1 == run(Entry, DeleteAdminRow(mem, foreignKeys, NumericAffinity(idp)))
           s2 == logAudit(s1, sid, "delete", "admin", idp)
       IN  IF IsOwnAccount(sid, idp)
           THEN /\ Leave(Entry)
                /\ Respond("deleteAdmin", sid, idp, 400, Entry, 0, 0)
           ELSE /\ Leave(s2)
                /\ Respond("deleteAdmin", sid, idp, 200, s2, 0, 0)
    /\ UNCHANGED <<sessions, uploads, nextUpload>>

----------------------------------------------------------------------------
(* Updates, and variants on their own.  A payload is a record holding the  *)
(* fields the request body has.                                            *)

\* payload.f is not undefined
Has(payload, f) == f \in DOMAIN payload

\* PUT /api/admin/categories/:id
UpdateCategory(sid, idp, payload) ==
    /\ sid \in Cookies /\ Authorized(sid)
    /\ LET id == NumericAffinity(idp)
           current == GetRow(mem.categories, id)
           name == IF Has(payload, "name") /\ payload.name # <<>>
                   THEN Trim(payload.name) ELSE current.name
           slug == IF Has(payload, "slug") /\ payload.slug # <<>>
                   THEN slugify(payload.slug) ELSE current.slug
           s1 == run(Entry, UpdateCategoryRow(mem, foreignKeys, id, name, slug))
           s2 == logAudit(s1, sid, "update", "category", idp)
       IN  IF ~HasRow(mem.categories, id)
           THEN /\ Leave(Entry)
                /\ Respond("updateCategory", sid, idp, 404, Entry, payload, 0)
           ELSE IF s1.thrown
           THEN /\ Leave([s1 EXCEPT !.thrown = FALSE])
                /\ Respond("updateCategory", sid, idp, 400, s1, payload, 0)
           ELSE /\ Leave(s2)
                /\ Respond("updateCategory", sid, idp, 200, s2, payload, 0)
    /\ UNCHANGED <<sessions, uploads, nextUpload>>

\* The function PUT /api/admin/products/:id wraps in db.transaction
UpdateProductFn(s, id, existing, payload, imagePath) ==
    LET s1 == run(s, UpdateProductRow(s.mem, s.foreignKeys, id,
                     IF Has(payload, "title") /\ payload.title # <<>>
                         THEN Trim(payload.title) ELSE existing.title,
                     imagePath,
                     IF Has(payload, "categoryId") /\ payload.categoryId # 0
                         THEN payload.categoryId ELSE NULL,
                     IF Has(payload, "status") /\ payload.status # ""
                         THEN payload.status ELSE existing.status))
        s2 == run(s1, DeleteVariantsOfProduct(s1.mem, s1.foreignKeys, id))
    IN  IF Has(payload, "variants")
        THEN InsertVariants(s2, id, payload.variants)
        ELSE s1

\* PUT /api/admin/products/:id (upload.single('image') stores the file first)
UpdateProduct(sid, idp, payload, hasFile) ==
    /\ sid \in Cookies /\ Authorized(sid)
    /\ hasFile => nextUpload <= MaxUploads
    /\ nextUpload' = IF hasFile THEN nextUpload + 1 ELSE nextUpload
    /\ LET id == NumericAffinity(idp)
           existing == GetRow(mem.products, id)
           stored == IF hasFile THEN uploads \cup {nextUpload} ELSE uploads
           s1 == txEnter(Entry)
           s2 == UpdateProductFn(s1, id, existing, payload,
                                 IF hasFile THEN nextUpload ELSE existing.image)
           s3 == txLeave(Entry, s2)
           s4 == logAudit(s3, sid, "update", "product", idp)
       IN  IF ~HasRow(mem.products, id)
           THEN /\ Leave(Entry)
                /\ Respond("updateProduct", sid, idp, 404, Entry, payload, 0)
                /\ uploads' = stored
           ELSE /\ uploads' = IF hasFile THEN stored \ {existing.image} ELSE stored
                /\ IF s3.thrown
                   THEN /\ Leave([s3 EXCEPT !.thrown = FALSE])
                        /\ Respond("updateProduct", sid, idp, 500, s3, payload, 0)
                   ELSE /\ Leave(s4)
                        /\ Respond("updateProduct", sid, idp, 200, s4, payload, 0)
    /\ UNCHANGED sessions

\* POST /api/admin/products/:id/publish
Publish(sid, idp, status) ==
    /\ sid \in Cookies /\ Authorized(sid)
    /\ LET id == NumericAffinity(idp)
           newStatus == IF status = "published" THEN "published" ELSE "draft"
           s1 == run(Entry, UpdateProductStatus(mem, foreignKeys, id, newStatus))
           s2 == logAudit(s1, sid, "publish", "product", idp)
       IN  IF ~HasRow(mem.products, id)
           THEN /\ Leave(Entry)
                /\ Respond("publish", sid, idp, 404, Entry, status, 0)
           ELSE /\ Leave(s2)
                /\ Respond("publish", sid, idp, 200, s2, status, 0)
    /\ UNCHANGED <<sessions, uploads, nextUpload>>

\* POST /api/admin/variants: Number(productId), sku || null, Number(stockQty) || 0
CreateVariant(sid, payload) ==
    /\ sid \in Cookies /\ Authorized(sid)
    /\ LET r == InsertVariant(mem, foreignKeys, payload.productId,
                              IF Has(payload, "sku") THEN payload.sku ELSE <<>>,
                              IF Has(payload, "stockQty") THEN payload.stockQty ELSE 0)
           s1 == run(Entry, r)
           s2 == logAudit(s1, sid, "create", "variant", JsString(r.rowid))
       IN  IF ~Has(payload, "productId") \/ payload.productId = 0
           THEN /\ Leave(Entry)
                /\ Respond("createVariant", sid, <<>>, 400, Entry, payload, 0)
           ELSE IF s1.thrown
           THEN /\ Leave([s1 EXCEPT !.thrown = FALSE])
                /\ Respond("createVariant", sid, <<>>, 400, s1, payload, 0)
           ELSE /\ Leave(s2)
                /\ Respond("createVariant", sid, <<>>, 200, s2, payload, r.rowid)
    /\ UNCHANGED <<sessions, uploads, nextUpload>>

\* PUT /api/admin/variants/:id: payload.sku ?? existing.sku,
\* payload.stockQty !== undefined ? Number(payload.stockQty) : existing.stock_qty
UpdateVariant(sid, idp, payload) ==
    /\ sid \in Cookies /\ Authorized(sid)
    /\ LET id == NumericAffinity(idp)
           existing == GetRow(mem.variants, id)
           s1 == run(Entry, UpdateVariantRow(mem, foreignKeys, id,
                        IF Has(payload, "sku") THEN payload.sku ELSE existing.sku,
                        IF Has(payload, "stockQty") THEN payload.stockQty
                                                    ELSE existing.stock_qty))
           s2 == logAudit(s1, sid, "update", "variant", idp)
       IN  IF ~HasRow(mem.variants, id)
           THEN /\ Leave(Entry)
                /\ Respond("updateVariant", sid, idp, 404, Entry, payload, 0)
           ELSE IF s1.thrown
           THEN /\ Leave([s1 EXCEPT !.thrown = FALSE])
                /\ Respond("updateVariant", sid, idp, 400, s1, payload, 0)
           ELSE /\ Leave(s2)
                /\ Respond("updateVariant", sid, idp, 200, s2, payload, 0)
    /\ UNCHANGED <<sessions, uploads, nextUpload>>

\* DELETE /api/admin/variants/:id
DeleteVariant(sid, idp) ==
    /\ sid \in Cookies /\ Authorized(sid)
    /\ LET id == NumericAffinity(idp)
           s1 == run(Entry, DeleteVariantRow(mem, foreignKeys, id))
           s2 == logAudit(s1, sid, "delete", "variant", idp)
       IN  IF ~HasRow(mem.variants, id)
           THEN /\ Leave(Entry)
                /\ Respond("deleteVariant", sid, idp, 404, Entry, 0, 0)
           ELSE /\ Leave(s2)
                /\ Respond("deleteVariant", sid, idp, 200, s2, 0, 0)
    /\ UNCHANGED <<sessions, uploads, nextUpload>>

----------------------------------------------------------------------------
(* Export and import (server.js /api/admin/export, /api/admin/import).     *)

\* prepare('SELECT * FROM t').all(): the rows in rowid order
RECURSIVE AllRows(_)
AllRows(rows) ==
    IF rows = {} THEN <<>>
    ELSE LET first == CHOOSE r \in rows : \A q \in rows : r.id <= q.id
         IN  <<first>> \o AllRows(rows \ {first})

\* GET /api/admin/export?format=json: res.json({ success: true, data })
ExportJson(db) ==
    [success |-> TRUE,
     data |-> [categories |-> AllRows(db.categories),
               products |-> AllRows(db.products),
               variants |-> AllRows(db.variants),
               inventory |-> AllRows(db.inventory)]]

\* Array.isArray(data.x) ? data.x : []
ArrayField(doc, f) == IF f \in DOMAIN doc THEN doc[f] ELSE <<>>

\* Map.prototype.set / get; get of a missing key is undefined, here 0
MapSet(m, k, v) == [x \in DOMAIN m \cup {k} |-> IF x = k THEN v ELSE m[x]]
MapGet(m, k) == IF k \in DOMAIN m THEN m[k] ELSE 0
EmptyMap == [x \in {} |-> 0]

\* A pass of the import: the call state and the two id maps
ImportState(s, categoryIdMap, productIdMap) ==
    [s |-> s, categoryIdMap |-> categoryIdMap, productIdMap |-> productIdMap]

\* A category pass that maps only the categories it inserts
RECURSIVE ImportCategoriesNoReuse(_, _)
ImportCategoriesNoReuse(st, categories) ==
    IF categories = <<>> \/ st.s.thrown THEN st
    ELSE LET cat == Head(categories)
             existing == {c \in st.s.mem.categories : c.slug = cat.slug}
             r == InsertCategory(st.s.mem, st.s.foreignKeys, cat.name, cat.slug)
             next ==
                 IF cat.name = <<>> \/ cat.slug = <<>> \/ existing # {} THEN st
                 ELSE IF ~r.ok THEN [st EXCEPT !.s = run(st.s, r)]
                 ELSE [st EXCEPT !.s = run(st.s, r),
                                 !.categoryIdMap = MapSet(@, cat.id, r.rowid)]
         IN  ImportCategoriesNoReuse(next, Tail(categories))

\* categories.forEach(cat => ...)
RECURSIVE ImportCategories(_, _)
ImportCategories(st, categories) ==
    IF categories = <<>> \/ st.s.thrown THEN st
    ELSE LET cat == Head(categories)
             existing == {c \in st.s.mem.categories : c.slug = cat.slug}
             r == InsertCategory(st.s.mem, st.s.foreignKeys, cat.name, cat.slug)
             next ==
                 IF cat.name = <<>> \/ cat.slug = <<>> THEN st
                 ELSE IF existing # {}
                 THEN [st EXCEPT !.categoryIdMap =
                          MapSet(@, cat.id, (CHOOSE c \in existing : TRUE).id)]
                 ELSE IF ~r.ok THEN [st EXCEPT !.s = run(st.s, r)]
                 ELSE [st EXCEPT !.s = run(st.s, r),
                                 !.categoryIdMap = MapSet(@, cat.id, r.rowid)]
         IN  ImportCategories(next, Tail(categories))

\* products.forEach(prod => ...)
RECURSIVE ImportProducts(_, _)
ImportProducts(st, products) ==
    IF products = <<>> \/ st.s.thrown THEN st
    ELSE LET prod == Head(products)
             mapped == IF prod.category_id # NULL /\ prod.category_id # 0
                       THEN MapGet(st.categoryIdMap, prod.category_id) ELSE 0
             r == InsertProduct(st.s.mem, st.s.foreignKeys, prod.title, prod.image,
                                IF mapped # 0 THEN mapped ELSE NULL,
                                IF prod.status # "" THEN prod.status ELSE "draft")
             next ==
                 IF prod.title = <<>> THEN st
                 ELSE IF ~r.ok THEN [st EXCEPT !.s = run(st.s, r)]
                 ELSE [st EXCEPT !.s = run(st.s, r),
                                 !.productIdMap = MapSet(@, prod.id, r.rowid)]
         IN  ImportProducts(next, Tail(products))

\* A variant pass that inserts a variant it cannot resolve under the
\* payload's own product id
RECURSIVE ImportVariantsKeepsOrphans(_, _)
ImportVariantsKeepsOrphans(st, variants) ==
    IF variants = <<>> \/ st.s.thrown THEN st
    ELSE LET variant == Head(variants)
             newProductId == MapGet(st.productIdMap, variant.product_id)
             r == InsertVariant(st.s.mem, st.s.foreignKeys,
                                IF newProductId = 0 THEN variant.product_id ELSE newProductId,
                                variant.sku, variant.stock_qty)
         IN  ImportVariantsKeepsOrphans([st EXCEPT !.s = run(st.s, r)], Tail(variants))

\* variants.forEach(variant => ...)
RECURSIVE ImportVariants(_, _)
ImportVariants(st, variants) ==
    IF variants = <<>> \/ st.s.thrown THEN st
    ELSE LET variant == Head(variants)
             newProductId == MapGet(st.productIdMap, variant.product_id)
             r == InsertVariant(st.s.mem, st.s.foreignKeys, newProductId,
                                variant.sku, variant.stock_qty)
             next == IF newProductId = 0 THEN st ELSE [st EXCEPT !.s = run(st.s, r)]
         IN  ImportVariants(next, Tail(variants))

\* The function the JSON import wraps in db.transaction
ImportFn(s, doc) ==
    ImportVariants(
        ImportProducts(
            ImportCategories(ImportState(s, EmptyMap, EmptyMap),
                             ArrayField(doc, "categories")),
            ArrayField(doc, "products")),
        ArrayField(doc, "variants"))

\* An import whose inserts run outside db.transaction, each persisting
ImportJsonUnwrapped(s, adminId, doc) ==
    LET st == ImportFn(s, doc)
    IN  [s |-> logAudit(st.s, adminId, "import", "database", <<>>),
         status |-> IF st.s.thrown THEN 400 ELSE 200,
         categoryIdMap |-> st.categoryIdMap,
         productIdMap |-> st.productIdMap]

\* POST /api/admin/import?format=json from JSON.parse(raw) to the response,
\* for the admin adminId in call state s
ImportJson(s, adminId, doc) ==
    LET st == ImportFn(txEnter(s), doc)
        s3 == txLeave(s, st.s)
    IN  [s |-> logAudit(s3, adminId, "import", "database", <<>>),
         status |-> IF s3.thrown THEN 400 ELSE 200,
         categoryIdMap |-> st.categoryIdMap,
         productIdMap |-> st.productIdMap]

\* POST /api/admin/import (format json)
Import(sid, hasFile, doc) ==
    /\ sid \in Cookies /\ Authorized(sid)
    /\ LET r == ImportJson(Entry, sid, doc)
       IN  IF ~hasFile
           THEN /\ Leave(Entry)
                /\ Respond("import", sid, <<>>, 400, Entry, doc, 0)
           ELSE /\ Leave(r.s)
                /\ Respond("import", sid, <<>>, r.status, r.s, doc,
                           [categoryIdMap |-> r.categoryIdMap, productIdMap |-> r.productIdMap])
    /\ UNCHANGED <<sessions, uploads, nextUpload>>

\* A second deployment whose admin has deleted every category: start-up,
\* then DELETE FROM categories for each seeded row.
RECURSIVE DeleteCategories(_, _)
DeleteCategories(s, rows) ==
    IF rows = <<>> THEN s
    ELSE DeleteCategories(run(s, DeleteCategoryRow(s.mem, s.foreignKeys, Head(rows).id)),
                          Tail(rows))

EmptyDestination(fkd) ==
    LET s == startServer(EmptyDb, fkd)
        d == DeleteCategories(s, AllRows(s.mem.categories))
    IN  CallState(d.mem, d.file, d.inTransaction, d.foreignKeys, fkd)

\* GET /api/admin/export?format=json here, and the exported catalog then
\* imported at the second deployment by its admin 1: verbatim uploads the
\* response body as received, otherwise its data member is uploaded.
ExportThenImport(sid, verbatim) ==
    /\ sid \in Cookies /\ Authorized(sid)
    /\ LET doc == ExportJson(mem)
           r == ImportJson(EmptyDestination(fkDefault), 1, IF verbatim THEN doc ELSE doc.data)
       IN  /\ Leave(Entry)
           /\ Respond(IF verbatim THEN "exportImportVerbatim" ELSE "exportImport",
                      sid, <<>>, r.status, Entry, doc.data, r.s.mem)
    /\ UNCHANGED <<sessions, uploads, nextUpload>>

----------------------------------------------------------------------------
(* Inputs of the requests.                                                 *)

Text1 == <<"1">>
Text01 == <<"0", "1">>
Text2 == <<"2">>
Text02 == <<"0", "2">>
Text12 == <<"1", "2">>
TextX == <<"x">>

NameInk == <<"I", "n", "k">>
NameInkLower == <<"i", "n", "k">>
NameBangs == <<"!", "!">>
NameBinding == <<"B", "i", "n", "d", "i", "n", "g">>
SlugBinding == <<"b", "i", "n", "d", "i", "n", "g">>
SlugInk == <<"i", "n", "k">>

TitleBinder == <<"S", "B">>
SkuA == <<"A">>
SkuB == <<"B">>
SkuC == <<"C">>
SkuD == <<"D">>

Variant(sku, stockQty) == [sku |-> sku, stockQty |-> stockQty]

\* Rows of an import payload, carrying the source system's ids
CategoryRow(id, name, slug) == [id |-> id, name |-> name, slug |-> slug]
ProductRow(id, title, category_id) ==
    [id |-> id, title |-> title, image |-> 0, category_id |-> category_id, status |-> ""]
VariantRow(id, product_id, sku, stock_qty) ==
    [id |-> id, product_id |-> product_id, sku |-> sku, stock_qty |-> stock_qty]

\* A password of an admin created through the admin API
OwnPassword == "pw-own"
OtherEmail == "aide@shop"

----------------------------------------------------------------------------
(* Product creation in one transaction.                                    *)

VariantListsTx ==
    {<<>>,
     <<Variant(SkuA, 10)>>,
     <<Variant(SkuA, 10), Variant(SkuB, 0)>>,
     <<Variant(SkuA, 5), Variant(SkuB, 1), Variant(SkuA, 2), Variant(SkuC, 3), Variant(SkuD, 4)>>,
     <<Variant(<<>>, 3), Variant(<<>>, 3)>>}

NextTx ==
    /\ AuditRoom(MaxAuditTx)
    /\ \/ \E pw \in {BootstrapPassword, OwnPassword} : Login(BootstrapEmail, pw)
       \/ \E sid \in Cookies : RequireAdminRejects("createProduct", sid)
       \/ \E sid \in Cookies, title \in {TitleBinder, <<>>}, hasFile \in BOOLEAN,
             categoryId \in {0, 2, 12}, variantList \in VariantListsTx :
             CreateProduct(sid, title, TRUE, hasFile, categoryId, "", variantList)

SpecTx == Init /\ [][NextTx]_vars

----------------------------------------------------------------------------
(* Transactions and the database file.                                     *)

Count(ev, e) == Cardinality({i \in 1..Len(ev) : ev[i] = e})
Position(ev, e) == CHOOSE i \in 1..Len(ev) : ev[i] = e

\* The requests that wrap their writes in db.transaction
TxOperations == {"createProduct", "adjustStock", "import"}

\* The calls of a request whose transaction committed: BEGIN, the runs of
\* fn, COMMIT, one write of the file, then what logAudit does.
CommittedOnce(ev) ==
    /\ Count(ev, "BEGIN") = 1 /\ ev[1] = "BEGIN"
    /\ Count(ev, "COMMIT") = 1 /\ Count(ev, "ROLLBACK") = 0
    /\ LET c == Position(ev, "COMMIT") IN
       /\ \A i \in 2..(c - 1) : ev[i] = "run"
       /\ Len(ev) > c /\ ev[c + 1] = "persist"
       /\ Count(SubSeq(ev, 1, c + 1), "persist") = 1
       /\ SubSeq(ev, c + 2, Len(ev)) \in {<<>>, <<"run", "persist">>, <<"run-error">>}

\* C1: a transaction wrapper invoked outside a transaction whose function
\* returns runs BEGIN, the function, COMMIT and then writes the file once;
\* no run inside the function writes the file, and the file is never
\* written while the engine's transaction is open.
C1_CommitPersistsOnce ==
    /\ Count(last.events, "persist-in-tx") = 0
    /\ (last.op \in TxOperations /\ last.status = 200) =>
          /\ CommittedOnce(last.events)
          /\ file = mem

\* A product with two or more variants was created in one transaction
C1_Witness ==
    /\ last.op = "createProduct" /\ last.status = 200
    /\ Len(last.arg) >= 2
    /\ Count(last.events, "run") >= 4

\* C2: when the wrapped function throws, the wrapper rolls back and throws
\* again (the handler answers with an error), the in-memory database is
\* what it was before the request, including the rows of every earlier
\* transaction, and the file is not written.
C2_RollbackRestores ==
    [][(last'.op \in TxOperations /\ Count(last'.events, "run-error") > 0) =>
          /\ last'.status \in {400, 500}
          /\ Count(last'.events, "ROLLBACK") = 1
          /\ Count(last'.events, "persist") = 0
          /\ Count(last'.events, "COMMIT") = 0
          /\ mem' = mem
          /\ file' = file
          /\ inTransaction' = FALSE]_vars

\* The third of five variant inserts failed after the product row and two
\* variant rows had been written, with an earlier product still in place
C2_Witness ==
    /\ last.op = "createProduct" /\ last.status = 500
    /\ Len(last.arg) = 5
    /\ last.events = <<"BEGIN", "run", "run", "run", "run-error", "ROLLBACK">>
    /\ mem.products # {}
    /\ mem.variants # {}

----------------------------------------------------------------------------
(* Stock adjustment.                                                       *)

Deltas ==
    {JsNum(-15), JsNum(3), JsNum(0), JsStr(TextX), JsStr(<<"-", "4">>), JsStr(<<>>),
     JsBool(TRUE), JsNull, JsUndefined}

NextStock ==
    /\ AuditRoom(MaxAuditStock)
    /\ \/ Login(BootstrapEmail, BootstrapPassword)
       \/ \E sid \in Cookies : RequireAdminRejects("adjustStock", sid)
       \/ \E sid \in Cookies, variantList \in {<<Variant(SkuA, 10)>>,
                                               <<Variant(SkuA, 2), Variant(SkuB, 0)>>} :
             CreateProduct(sid, TitleBinder, TRUE, TRUE, 0, "", variantList)
       \/ \E sid \in Cookies, idp \in {Text1, Text01, Text2, TextX}, delta \in Deltas :
             AdjustStock(sid, idp, delta)

SpecStock == Init /\ [][NextStock]_vars

\* C3: an accepted adjustment of an existing variant sets its stock to
\* max(0, oldQty + delta), answers with that value and appends exactly one
\* adjustment row holding the requested delta, both in one transaction;
\* no other variant changes.
C3_AdjustStockClamps ==
    [][(/\ last'.op = "adjustStock"
        /\ last'.status # 400
        /\ HasRow(mem.variants, NumericAffinity(last'.id))) =>
          LET id == NumericAffinity(last'.id)
              oldQty == GetRow(mem.variants, id).stock_qty
              delta == Number(last'.arg).n
              expected == IF oldQty + delta > 0 THEN oldQty + delta ELSE 0
          IN  /\ last'.status = 200
              /\ last'.ret = expected
              /\ HasRow(mem'.variants, id)
              /\ GetRow(mem'.variants, id).stock_qty = expected
              /\ GetRow(mem'.variants, id).stock_qty >= 0
              /\ {v \in mem'.variants : v.id # id} = {v \in mem.variants : v.id # id}
              /\ mem.inventory \subseteq mem'.inventory
              /\ Cardinality(mem'.inventory \ mem.inventory) = 1
              /\ \A a \in mem'.inventory \ mem.inventory :
                    /\ a.variant_id = id
                    /\ a.delta_qty = delta
                    /\ a.performed_by = last'.admin
              /\ SubSeq(last'.events, 1, 5) = <<"BEGIN", "run", "run", "COMMIT", "persist">>]_vars

\* Stock 10 adjusted by -15: stock 0 and a row with delta -15
C3_Witness ==
    /\ last.op = "adjustStock" /\ last.status = 200
    /\ last.arg = JsNum(-15) /\ last.ret = 0
    /\ \E a \in mem.inventory : a.delta_qty = -15
    /\ \E v \in mem.variants : v.id = NumericAffinity(last.id) /\ v.stock_qty = 0

\* C4: an adjustment whose delta converts to zero or to no number is turned
\* away with 400 before any adapter call: variants, adjustments, audit log
\* and the file stay as they were.
C4_RejectedDeltaWritesNothing ==
    [][(/\ last'.op = "adjustStock"
        /\ last'.admin # 0
        /\ (Number(last'.arg).nan \/ Number(last'.arg).n = 0)) =>
          /\ last'.status = 400
          /\ last'.events = <<>>
          /\ mem' = mem
          /\ file' = file]_vars

\* A delta that is no number, and a zero delta, were sent for an existing variant
C4_Witness ==
    /\ last.op = "adjustStock" /\ last.status = 400
    /\ last.arg \in {JsStr(TextX), JsNum(0)}
    /\ HasRow(mem.variants, NumericAffinity(last.id))

----------------------------------------------------------------------------
(* Deleting categories and products.                                       *)

NextDelete ==
    /\ AuditRoom(MaxAuditDelete)
    /\ \/ Login(BootstrapEmail, BootstrapPassword)
       \/ \E sid \in Cookies : RequireAdminRejects("deleteProduct", sid)
       \/ \E sid \in Cookies, categoryId \in {0, 2},
             variantList \in {<<>>, <<Variant(SkuA, 10)>>, <<Variant(SkuB, 2)>>} :
             CreateProduct(sid, TitleBinder, TRUE, TRUE, categoryId, "published", variantList)
       \/ \E sid \in Cookies, idp \in {Text1, Text2} : AdjustStock(sid, idp, JsNum(3))
       \/ \E sid \in Cookies, idp \in {Text2, Text02, Text12, TextX} : DeleteCategory(sid, idp)
       \/ \E sid \in Cookies, idp \in {Text1, Text01, Text2}, unlinkFails \in BOOLEAN :
             DeleteProduct(sid, idp, unlinkFails)

SpecDelete == Init /\ [][NextDelete]_vars

\* C6: deleting a category leaves every product row in place, sets the
\* category reference of the products that referenced it to NULL, changes
\* no other field and no other product, and removes no variant and no
\* inventory adjustment.
C6_DeleteCategoryKeepsProducts ==
    [][(last'.op = "deleteCategory" /\ last'.admin # 0) =>
          LET id == NumericAffinity(last'.id) IN
          /\ mem'.variants = mem.variants
          /\ mem'.inventory = mem.inventory
          /\ Ids(mem'.products) = Ids(mem.products)
          /\ last'.status = 200 =>
                /\ ~HasRow(mem'.categories, id)
                /\ mem'.products =
                      {IF p.category_id = id THEN [p EXCEPT !.category_id = NULL] ELSE p :
                          p \in mem.products}
                /\ \A p \in mem'.products : p.category_id # id]_vars

\* A category that a product with a variant referenced was deleted
C6_Witness ==
    /\ last.op = "deleteCategory" /\ last.status = 200 /\ last.ret > 0
    /\ \E p \in mem.products : p.category_id = NULL /\ p.status = "published"
    /\ mem.variants # {}

\* C7: deleting a product removes its row, all of its variants and all
\* inventory adjustments of those variants, and nothing of another product.
C7_DeleteProductCascades ==
    [][(last'.op = "deleteProduct" /\ last'.status = 200) =>
          LET id == NumericAffinity(last'.id)
              owned == {v \in mem.variants : v.product_id = id}
          IN  /\ mem'.products = {p \in mem.products : p.id # id}
              /\ mem'.variants = mem.variants \ owned
              /\ mem'.inventory = {a \in mem.inventory : a.variant_id \notin Ids(owned)}]_vars

----------------------------------------------------------------------------
(* Admin accounts.                                                         *)

NextAdmins ==
    /\ AuditRoom(MaxAuditAdmins)
    /\ \/ \E email \in {BootstrapEmail, OtherEmail}, pw \in {BootstrapPassword, OwnPassword} :
             Login(email, pw)
       \/ \E sid \in Cookies : RequireAdminRejects("deleteAdmin", sid)
       \/ \E sid \in Cookies, email \in {OtherEmail, BootstrapEmail, ""} :
             CreateAdmin(sid, email, OwnPassword)
       \/ \E sid \in Cookies, idp \in {Text1, Text01, Text2, Text02, TextX} :
             DeleteAdmin(sid, idp)

SpecAdmins == Init /\ [][NextAdmins]_vars

\* C8: a request to delete the admin account of the session that sends it
\* is turned away and the account's row is still there.
C8_NoSelfDelete ==
    (/\ last.op = "deleteAdmin"
     /\ last.admin # 0
     /\ NumericAffinity(last.id) = last.admin) =>
        /\ last.status = 400
        /\ HasRow(mem.admins, last.admin)

----------------------------------------------------------------------------
(* JSON import.                                                            *)

CatBinding == CategoryRow(7, NameBinding, SlugBinding)
CatInk == CategoryRow(8, NameInk, SlugInk)
CatBindingTwin == CategoryRow(9, NameBinding, <<"b", "2">>)
CatNameless == CategoryRow(7, <<>>, SlugBinding)

PayloadCategories ==
    {<<>>, <<CatBinding, CatInk>>, <<CatInk, CatBindingTwin>>, <<CatNameless>>}

PayloadProducts ==
    {<<ProductRow(3, TitleBinder, 7)>>,
     <<ProductRow(3, TitleBinder, 7), ProductRow(4, <<>>, NULL)>>,
     <<ProductRow(3, TitleBinder, 8), ProductRow(4, <<"T">>, NULL)>>}

PayloadVariants ==
    {<<VariantRow(1, 3, SkuA, 5), VariantRow(2, 3, SkuA, 1)>>,
     <<VariantRow(1, 4, SkuB, 0)>>,
     <<VariantRow(1, 3, SkuA, 5), VariantRow(2, 99, SkuB, 1)>>}

Payloads ==
    [categories : PayloadCategories, products : PayloadProducts, variants : PayloadVariants]

NextImport ==
    /\ AuditRoom(MaxAuditImport)
    /\ \/ Login(BootstrapEmail, BootstrapPassword)
       \/ \E sid \in Cookies : RequireAdminRejects("import", sid)
       \/ \E sid \in Cookies, doc \in Payloads : Import(sid, TRUE, doc)
       \/ \E sid \in Cookies : Import(sid, FALSE, [categories |-> <<>>])

SpecImport == Init /\ [][NextImport]_vars

\* The payload entries the import algorithm inserts into database db
ValidCategories(doc) ==
    {i \in DOMAIN doc.categories :
        doc.categories[i].name # <<>> /\ doc.categories[i].slug # <<>>}
NewSlugs(db, doc) ==
    {doc.categories[i].slug : i \in ValidCategories(doc)} \ {c.slug : c \in db.categories}
TitledProducts(doc) == {i \in DOMAIN doc.products : doc.products[i].title # <<>>}
ResolvableVariants(doc) ==
    {i \in DOMAIN doc.variants :
        \E j \in TitledProducts(doc) : doc.products[j].id = doc.variants[i].product_id}

\* C5: a JSON import answers 200 or 400.  On 200 every category, product
\* and variant the algorithm inserts is in the database and in the
\* persisted file, next to all earlier rows; on 400 the database and the
\* persisted file are exactly as before the import.
C5_ImportAllOrNothing ==
    [][(last'.op = "import" /\ last'.admin # 0) =>
          LET doc == last'.arg IN
          /\ last'.status \in {200, 400}
          /\ last'.status = 400 => mem' = mem /\ file' = file
          /\ last'.status = 200 =>
                /\ mem.categories \subseteq mem'.categories
                /\ {c.slug : c \in mem'.categories \ mem.categories} = NewSlugs(mem, doc)
                /\ Cardinality(mem'.categories \ mem.categories) =
                       Cardinality(NewSlugs(mem, doc))
                /\ mem.products \subseteq mem'.products
                /\ Cardinality(mem'.products \ mem.products) =
                       Cardinality(TitledProducts(doc))
                /\ mem.variants \subseteq mem'.variants
                /\ Cardinality(mem'.variants \ mem.variants) =
                       Cardinality(ResolvableVariants(doc))
                /\ file' = mem'
                /\ CommittedOnce(last'.events)]_vars

\* An import failed on a later insert after earlier inserts had run
C5_Witness ==
    /\ last.op = "import" /\ last.status = 400
    /\ Count(last.events, "run") >= 2
    /\ Count(last.events, "run-error") = 1
    /\ Count(last.events, "ROLLBACK") = 1
    /\ mem.products = {} /\ file = mem

\* C9 as stated: after a successful import, for every payload category
\* whose slug a destination category already had, that row is still the
\* only one with the slug, the payload id is mapped to its id, and every
\* imported product that referenced the payload category references it.
C9_ExistingSlugReused ==
    [][(last'.op = "import" /\ last'.status = 200) =>
          LET doc == last'.arg
              map == last'.ret.categoryIdMap
              pmap == last'.ret.productIdMap
          IN  \A i \in DOMAIN doc.categories :
                 LET cat == doc.categories[i] IN
                 \A e \in mem.categories :
                    e.slug = cat.slug =>
                       /\ {c \in mem'.categories : c.slug = cat.slug} = {e}
                       /\ MapGet(map, cat.id) = e.id
                       /\ \A j \in TitledProducts(doc) :
                             doc.products[j].category_id = cat.id =>
                                GetRow(mem'.products, MapGet(pmap, doc.products[j].id)).category_id
                                    = e.id]_vars

\* C9 amended: the same for every payload category that has a name and a
\* slug (the import passes over the others without mapping them).
C9_NamedExistingSlugReused ==
    [][(last'.op = "import" /\ last'.status = 200) =>
          LET doc == last'.arg
              map == last'.ret.categoryIdMap
              pmap == last'.ret.productIdMap
          IN  \A i \in ValidCategories(doc) :
                 LET cat == doc.categories[i] IN
                 \A e \in mem.categories :
                    e.slug = cat.slug =>
                       /\ {c \in mem'.categories : c.slug = cat.slug} = {e}
                       /\ MapGet(map, cat.id) = e.id
                       /\ \A j \in TitledProducts(doc) :
                             doc.products[j].category_id = cat.id =>
                                GetRow(mem'.products, MapGet(pmap, doc.products[j].id)).category_id
                                    = e.id]_vars

\* A payload category with the slug of seeded category 2 was imported along
\* with a product that referenced it
C9_Witness ==
    /\ last.op = "import" /\ last.status = 200
    /\ CatBinding \in SeqToSet(last.arg.categories)
    /\ MapGet(last.ret.categoryIdMap, 7) = 2
    /\ \E p \in mem.products : p.category_id = 2
    /\ Cardinality({c \in mem.categories : c.slug = SlugBinding}) = 1

\* C11: in a JSON import, every imported product references the category
\* its payload category id is mapped to (a row with the payload category's
\* slug), or no category when the id is unmapped; every variant whose
\* payload product id is mapped is inserted under the mapped product, and a
\* variant whose product id is unmapped is not inserted; nothing but a
\* failed insert makes the import answer with an error.
C11_ImportResolvesReferences ==
    [][(last'.op = "import" /\ last'.admin # 0 /\ "products" \in DOMAIN last'.arg) =>
          LET doc == last'.arg
              cmap == last'.ret.categoryIdMap
              pmap == last'.ret.productIdMap
              newProducts == mem'.products \ mem.products
              newVariants == mem'.variants \ mem.variants
          IN  /\ Count(last'.events, "run-error") = 0 => last'.status = 200
              /\ last'.status = 200 =>
                    /\ \A i \in ValidCategories(doc) :
                          /\ HasRow(mem'.categories, MapGet(cmap, doc.categories[i].id))
                          /\ GetRow(mem'.categories, MapGet(cmap, doc.categories[i].id)).slug
                                = doc.categories[i].slug
                    /\ \A j \in TitledProducts(doc) :
                          LET prod == doc.products[j]
                              to == IF prod.category_id = NULL THEN 0
                                    ELSE MapGet(cmap, prod.category_id)
                          IN  /\ HasRow(newProducts, MapGet(pmap, prod.id))
                              /\ GetRow(newProducts, MapGet(pmap, prod.id)).category_id
                                    = IF to = 0 THEN NULL ELSE to
                    /\ \A i \in DOMAIN doc.variants :
                          LET variant == doc.variants[i]
                              to == MapGet(pmap, variant.product_id)
                          IN  IF to = 0
                              THEN \A w \in newVariants : w.sku # variant.sku
                              ELSE \E w \in newVariants :
                                      /\ w.sku = variant.sku
                                      /\ w.product_id = to
                                      /\ w.stock_qty = variant.stock_qty]_vars

\* An import went through whose payload held a product with an unmapped
\* category id and a variant with an unmapped product id
C11_Witness ==
    /\ last.op = "import" /\ last.status = 200
    /\ \E j \in DOMAIN last.arg.products :
          /\ last.arg.products[j].category_id = 8
          /\ MapGet(last.ret.categoryIdMap, 8) = 0
          /\ GetRow(mem.products, MapGet(last.ret.productIdMap, 3)).category_id = NULL
    /\ \E i \in DOMAIN last.arg.variants :
          /\ last.arg.variants[i].sku = SkuB
          /\ MapGet(last.ret.productIdMap, last.arg.variants[i].product_id) = 0
    /\ \E w \in mem.variants : w.sku = SkuA
    /\ \A w \in mem.variants : w.sku # SkuB

----------------------------------------------------------------------------
(* Export, then import into an empty destination.                          *)

NextRoundTrip ==
    /\ AuditRoom(MaxAuditRoundTrip)
    /\ \/ Login(BootstrapEmail, BootstrapPassword)
       \/ \E sid \in Cookies : RequireAdminRejects("export", sid)
       \/ \E sid \in Cookies, name \in {NameInk, NameInkLower, NameBangs} :
             CreateCategory(sid, name, <<>>)
       \/ \E sid \in Cookies, categoryId \in {0, 2, 12},
             variantList \in {<<>>, <<Variant(SkuA, 10)>>} :
             CreateProduct(sid, TitleBinder, TRUE, TRUE, categoryId, "", variantList)
       \/ \E sid \in Cookies, verbatim \in BOOLEAN : ExportThenImport(sid, verbatim)

SpecRoundTrip == Init /\ [][NextRoundTrip]_vars

\* The slug of the category a product references, <<"-">> for none
CategorySlugOf(db, category_id) ==
    IF HasRow(db.categories, category_id)
    THEN <<"c">> \o GetRow(db.categories, category_id).slug
    ELSE <<"-">>
\* The title of the product a variant references
ProductTitleOf(db, product_id) ==
    IF HasRow(db.products, product_id) THEN GetRow(db.products, product_id).title ELSE <<>>

\* C10: importing the data of a JSON export into an empty destination
\* succeeds and gives the destination the source's categories by slug, its
\* products by title and category slug, and its variants by SKU, each
\* variant under the product that corresponds to its product in the source.
C10_ExportImportRoundTrip ==
    last.op = "exportImport" =>
        LET dst == last.ret IN
        /\ last.status = 200
        /\ {c.slug : c \in dst.categories} = {c.slug : c \in mem.categories}
        /\ Cardinality(dst.categories) = Cardinality(mem.categories)
        /\ {<<p.title, CategorySlugOf(dst, p.category_id)>> : p \in dst.products}
              = {<<p.title, CategorySlugOf(mem, p.category_id)>> : p \in mem.products}
        /\ Cardinality(dst.products) = Cardinality(mem.products)
        /\ {<<v.sku, ProductTitleOf(dst, v.product_id)>> : v \in dst.variants}
              = {<<v.sku, ProductTitleOf(mem, v.product_id)>> : v \in mem.variants}
        /\ Cardinality(dst.variants) = Cardinality(mem.variants)

----------------------------------------------------------------------------
(* The stock of a variant and its inventory adjustments.                   *)

NextLedger ==
    /\ AuditRoom(MaxAuditLedger)
    /\ \/ Login(BootstrapEmail, BootstrapPassword)
       \/ \E sid \in Cookies : RequireAdminRejects("updateVariant", sid)
       \/ \E sid \in Cookies :
             CreateProduct(sid, TitleBinder, TRUE, TRUE, 0, "", <<Variant(SkuA, 10)>>)
       \/ \E sid \in Cookies,
             payload \in {[productId |-> 1, sku |-> SkuB, stockQty |-> 4],
                          [productId |-> 1], [sku |-> SkuB]} :
             CreateVariant(sid, payload)
       \/ \E sid \in Cookies, idp \in {Text1, Text2},
             payload \in {[stockQty |-> 3], [sku |-> SkuC]} :
             UpdateVariant(sid, idp, payload)
       \/ \E sid \in Cookies,
             payload \in {[title |-> <<"T">>], [variants |-> <<Variant(SkuD, 7)>>]} :
             UpdateProduct(sid, Text1, payload, FALSE)
       \/ \E sid \in Cookies, idp \in {Text1, Text2}, delta \in {JsNum(-15), JsNum(3)} :
             AdjustStock(sid, idp, delta)

SpecLedger == Init /\ [][NextLedger]_vars

\* The stock that adjustment rows, taken in the order of their ids, make
\* of the quantity qty: each delta is added and the sum clamped at zero
RECURSIVE ApplyAdjustments(_, _)
ApplyAdjustments(qty, rows) ==
    IF rows = <<>> THEN qty
    ELSE ApplyAdjustments(Max(0, qty + Head(rows).delta_qty), Tail(rows))

\* C12: the stock of a variant is the quantity it was created with and its
\* recorded adjustments applied in order, clamped at zero after each.  In
\* steps: a request leaves a variant's stock at its earlier stock with the
\* adjustments the request recorded for the variant applied, and a variant
\* the request created has no adjustment recorded.
C12_StockLedger ==
    [][\A v \in mem'.variants :
          LET recorded == {a \in mem'.inventory \ mem.inventory : a.variant_id = v.id} IN
          IF HasRow(mem.variants, v.id)
          THEN v.stock_qty =
                  ApplyAdjustments(GetRow(mem.variants, v.id).stock_qty, AllRows(recorded))
          ELSE \A a \in mem'.inventory : a.variant_id # v.id]_vars

----------------------------------------------------------------------------
(* Updates of categories, products and variants.                           *)

NextUpdate ==
    /\ AuditRoom(MaxAuditUpdate)
    /\ \/ Login(BootstrapEmail, BootstrapPassword)
       \/ \E sid \in Cookies : RequireAdminRejects("updateProduct", sid)
       \/ \E sid \in Cookies :
             CreateProduct(sid, TitleBinder, TRUE, TRUE, 2, "published", <<Variant(SkuA, 10)>>)
       \/ \E sid \in Cookies, idp \in {Text2, Text12},
             payload \in {[name |-> NameInk], [slug |-> NameInk], <<>>} :
             UpdateCategory(sid, idp, payload)
       \/ \E sid \in Cookies, hasFile \in BOOLEAN,
             payload \in {[title |-> <<"T">>], [categoryId |-> 3], [status |-> "draft"],
                          [title |-> <<"T">>, categoryId |-> 2, status |-> "published"],
                          [variants |-> <<Variant(SkuD, 7)>>]} :
             UpdateProduct(sid, Text1, payload, hasFile)
       \/ \E sid \in Cookies, payload \in {[sku |-> SkuB], [stockQty |-> 3]} :
             UpdateVariant(sid, Text1, payload)

SpecUpdate == Init /\ [][NextUpdate]_vars

\* C13: an update of a category, a product or a variant that goes through
\* leaves every field the payload does not have at its stored value (a
\* product update without categoryId keeps the category reference, one
\* without variants keeps the variants), and writes the fields it has.
C13_AbsentFieldsKept ==
    [][(last'.status = 200 /\ last'.op \in {"updateCategory", "updateProduct", "updateVariant"}) =>
          LET id == NumericAffinity(last'.id)
              payload == last'.arg
          IN  /\ last'.op = "updateCategory" =>
                    LET old == GetRow(mem.categories, id)
                        new == GetRow(mem'.categories, id)
                    IN  /\ ~Has(payload, "name") => new.name = old.name
                        /\ ~Has(payload, "slug") => new.slug = old.slug
                        /\ Has(payload, "name") => new.name = Trim(payload.name)
              /\ last'.op = "updateProduct" =>
                    LET old == GetRow(mem.products, id)
                        new == GetRow(mem'.products, id)
                    IN  /\ ~Has(payload, "title") => new.title = old.title
                        /\ ~Has(payload, "categoryId") => new.category_id = old.category_id
                        /\ ~Has(payload, "status") => new.status = old.status
                        /\ ~Has(payload, "variants") =>
                              {v \in mem'.variants : v.product_id = id}
                                 = {v \in mem.variants : v.product_id = id}
                        /\ Has(payload, "title") => new.title = Trim(payload.title)
              /\ last'.op = "updateVariant" =>
                    LET old == GetRow(mem.variants, id)
                        new == GetRow(mem'.variants, id)
                    IN  /\ ~Has(payload, "sku") => new.sku = old.sku
                        /\ ~Has(payload, "stockQty") => new.stock_qty = old.stock_qty
                        /\ Has(payload, "sku") => new.sku = payload.sku]_vars

----------------------------------------------------------------------------
\* The bootstrap admin: start-up and the login fallback

MaxAuditBootstrap == 6

NextBootstrap ==
    \/ Restart
    \/ /\ AuditRoom(MaxAuditBootstrap)
       /\ \/ \E email \in {BootstrapEmail, OtherEmail},
                 pw \in {BootstrapPassword, OwnPassword} : Login(email, pw)
          \/ \E sid \in Cookies : RequireAdminRejects("createAdmin", sid)
          \/ \E sid \in Cookies, email \in {OtherEmail, BootstrapEmail} :
                CreateAdmin(sid, email, OwnPassword)
          \/ \E sid \in Cookies, idp \in {Text1, Text2} : DeleteAdmin(sid, idp)

SpecBootstrap == Init /\ [][NextBootstrap]_vars

\* The rows of admins that carry the bootstrap email
BootstrapRows(db) == {a \in db.admins : a.email = BootstrapEmail}

\* C14: where ensureBootstrapAdmin has run (at start-up, or in a login with
\* the configured credentials that the stored row did not accept), exactly
\* one row carries the configured email, with the configured name, the role
\* 'admin' and the hash of the configured password; a row that was there is
\* updated in place, so the number of rows is unchanged, and one is added
\* only where there was none; every other row is untouched; running it
\* again on the result changes no row.
C14_BootstrapUpsert ==
    [][(\/ last'.op = "restart"
        \/ last'.op = "login" /\ last'.arg \in {1, 2})
       => LET before == IF last'.op = "restart" THEN file.admins ELSE mem.admins
              had == \E a \in before : a.email = BootstrapEmail
              again == ensureBootstrapAdmin(
                           CallState(mem', file', FALSE, foreignKeys', fkDefault'))
          IN  /\ Cardinality(BootstrapRows(mem')) = 1
              /\ \A a \in BootstrapRows(mem') :
                     /\ a.name = BootstrapName
                     /\ a.role = "admin"
                     /\ a.password = BootstrapPassword
                     /\ had => \E b \in before : b.email = BootstrapEmail /\ b.id = a.id
              /\ Cardinality(mem'.admins) = Cardinality(before) + (IF had THEN 0 ELSE 1)
              /\ {a \in mem'.admins : a.email # BootstrapEmail}
                    = {a \in before : a.email # BootstrapEmail}
              /\ file'.admins = mem'.admins
              /\ again.mem.admins = mem'.admins
              /\ ~again.thrown]_vars

\* A login with the configured credentials that finds the configured email
\* stored with another password and name, next to a second account
C14_Witness ==
    /\ last.op = "login" /\ last.arg = 2 /\ last.status = 200
    /\ Cardinality(mem.admins) = 2
    /\ \E a \in mem.admins : a.email = BootstrapEmail /\ a.id = 3

\* C19: an admin route that was not answered 401 was called with a session
\* whose admin row existed when the request arrived, and it ran as that
\* admin; a request answered 401 came with no session or with the session
\* of an admin whose row is gone, changed neither database nor file, and
\* left no session behind for that admin.
C19_GuardedByLiveAdmin ==
    [][last'.op \notin {"login", "restart"}
       => IF last'.status = 401
          THEN /\ last'.ret = 0 \/ (last'.ret \in sessions /\ ~HasRow(mem.admins, last'.ret))
               /\ mem' = mem
               /\ file' = file
               /\ sessions' = sessions \ {last'.ret}
          ELSE /\ last'.admin \in sessions
               /\ HasRow(mem.admins, last'.admin)
               /\ sessions' = sessions]_vars

\* The session of an admin whose row another admin deleted is turned away
\* and destroyed
C19_Witness ==
    /\ last.op = "createAdmin" /\ last.status = 401
    /\ last.ret = 1
    /\ 1 \notin sessions /\ 2 \in sessions
    /\ ~HasRow(mem.admins, 1)

\* C24: every request and every start-up keeps each audit entry there was,
\* under its id and with its action, entity and entity id; its admin id is
\* the same, or has become NULL in a request that removed that admin's row.
C24_AuditAppendOnly ==
    [][\A e \in mem.audit :
          \E f \in mem'.audit :
             /\ f.id = e.id
             /\ f.action = e.action /\ f.entity = e.entity /\ f.entity_id = e.entity_id
             /\ \/ f.admin_id = e.admin_id
                \/ /\ f.admin_id = NULL
                   /\ HasRow(mem.admins, e.admin_id)
                   /\ ~HasRow(mem'.admins, e.admin_id)]_vars

\* The login entry of an admin whose row another admin deleted, with its
\* admin id set to NULL by the foreign key
C24_Witness ==
    /\ last.op = "deleteAdmin" /\ last.status = 200 /\ last.admin = 2
    /\ \E e \in mem.audit : e.id = 1 /\ e.action = "login" /\ e.admin_id = NULL
    /\ Cardinality(mem.audit) = 4

----------------------------------------------------------------------------
\* C15: a product deletion in which the removal of the image file fails
\* still deletes the product row and answers success.
C15_UnlinkFailureStillDeletes ==
    [][(last'.op = "deleteProduct" /\ last'.arg = 1)
       => /\ last'.status = 200
          /\ ~HasRow(mem'.products, NumericAffinity(last'.id))]_vars

----------------------------------------------------------------------------
\* Failures of the audit entry and of the database file

MaxAuditFault == 3

NextFault ==
    /\ AuditRoom(MaxAuditFault)
    /\ \/ Login(BootstrapEmail, BootstrapPassword)
       \/ \E n \in {0, 1} : DiskFills(n)
       \/ \E sid \in Cookies : RequireAdminRejects("createCategory", sid)
       \/ \E sid \in Cookies : CreateCategory(sid, NameInk, <<>>)
       \/ \E sid \in Cookies :
             CreateProduct(sid, TitleBinder, TRUE, TRUE, 0, "published",
                           <<Variant(SkuA, 10)>>)
       \/ \E sid \in Cookies, idp \in {Text01, Text2} : DeleteAdmin(sid, idp)

SpecFault == Init /\ [][NextFault]_vars

\* C16: a request whose audit entry could not be written (the insert or
\* its persist raised inside logAudit) still answers success, and the write
\* the request made before the audit entry is in the database and in the
\* file: the new category, the new product with its variant, the removed
\* admin row; a login still opens its session.
C16_AuditFailureSwallowed ==
    [][last'.auditError
       => /\ last'.status = 200
          /\ CASE last'.op = "createCategory" ->
                     \E c \in mem'.categories :
                        /\ c.id = mem.seq.categories + 1
                        /\ c.name = NameInk
                        /\ c \in file'.categories
               [] last'.op = "createProduct" ->
                     /\ \E q \in mem'.products :
                           q.id = last'.ret /\ q.id \notin Ids(mem.products)
                                            /\ q \in file'.products
                     /\ \E v \in mem'.variants :
                           v.product_id = last'.ret /\ v \in file'.variants
               [] last'.op = "deleteAdmin" ->
                     /\ HasRow(mem.admins, NumericAffinity(last'.id))
                           => mem'.admins # mem.admins
                     /\ ~HasRow(mem'.admins, NumericAffinity(last'.id))
                     /\ ~HasRow(file'.admins, NumericAffinity(last'.id))
               [] last'.op = "login" -> last'.admin \in sessions'
               [] OTHER -> FALSE]_vars

\* A category creation whose audit entry was inserted but not persisted
C16_Witness ==
    /\ last.op = "createCategory" /\ last.auditError /\ last.status = 200
    /\ "persist-error" \in SeqToSet(last.events)
    /\ mem.audit # file.audit

\* A deletion of the own account (id "01") whose audit entry then fails the
\* foreign key on admin_id
C16_WitnessInsert ==
    /\ last.op = "deleteAdmin" /\ last.auditError /\ last.status = 200
    /\ "run-error" \in SeqToSet(last.events)

\* C20 as stated: a request in which a write of the database file failed
\* does not answer success.
C20_PersistFailureSurfaces ==
    [][("persist-error" \in SeqToSet(last'.events)) => last'.status # 200]_vars

\* C20: a request in which the write of the database file failed outside
\* logAudit (after a statement run on its own or after COMMIT) answers with
\* an error status, the file keeps the content it had, and the rows the
\* request wrote stay in memory.
C20_PrimaryPersistFailureSurfaces ==
    [][("persist-error" \in SeqToSet(last'.events) /\ ~last'.auditError)
       => /\ last'.status \in {400, 500}
          /\ file' = file
          /\ last'.op \in {"createCategory", "createProduct"} => mem' # file'
          /\ last'.op = "createProduct" => mem'.seq.products = mem.seq.products + 1
          /\ last'.op = "createCategory" => mem'.seq.categories = mem.seq.categories + 1]_vars

\* A product creation whose transaction committed and whose file write failed
C20_Witness ==
    /\ last.op = "createProduct" /\ last.status = 500 /\ ~last.auditError
    /\ "COMMIT" \in SeqToSet(last.events)
    /\ "persist-error" \in SeqToSet(last.events)
    /\ mem.products # {} /\ file.products = {}

----------------------------------------------------------------------------
\* Uniqueness collisions

MaxAuditUnique == 3

NextUnique ==
    /\ AuditRoom(MaxAuditUnique)
    /\ \/ Login(BootstrapEmail, BootstrapPassword)
       \/ \E sid \in Cookies : RequireAdminRejects("admin", sid)
       \/ \E sid \in Cookies, name \in {NameInk, NameInkLower, NameBinding} :
             CreateCategory(sid, name, <<>>)
       \/ \E sid \in Cookies, idp \in {Text1, Text12},
             payload \in {[name |-> NameBinding], [slug |-> NameBinding],
                          [name |-> NameInkLower]} :
             UpdateCategory(sid, idp, payload)
       \/ \E sid \in Cookies,
             variantList \in {<<Variant(SkuA, 10)>>, <<Variant(SkuB, 1), Variant(SkuA, 2)>>} :
             CreateProduct(sid, TitleBinder, TRUE, TRUE, 0, "published", variantList)
       \/ \E sid \in Cookies, sku \in {SkuA, SkuC} :
             CreateVariant(sid, [productId |-> 1, sku |-> sku])
       \/ \E sid \in Cookies, idp \in {Text1, Text2}, sku \in {SkuA, SkuC} :
             UpdateVariant(sid, idp, [sku |-> sku])
       \/ \E sid \in Cookies, email \in {BootstrapEmail, OtherEmail} :
             CreateAdmin(sid, email, OwnPassword)

SpecUnique == Init /\ [][NextUnique]_vars

\* The request recorded in r, sent in database db, collides with a stored
\* unique value: a category name or slug, a variant SKU, an admin email.
Collides(r, db) ==
    CASE r.op = "createCategory" ->
            \E c \in db.categories : c.name = r.arg \/ c.slug = slugify(r.arg)
      [] r.op = "updateCategory" ->
            LET id == NumericAffinity(r.id) IN
            /\ HasRow(db.categories, id)
            /\ \E c \in db.categories :
                  /\ c.id # id
                  /\ \/ Has(r.arg, "name") /\ c.name = Trim(r.arg.name)
                     \/ Has(r.arg, "slug") /\ c.slug = slugify(r.arg.slug)
      [] r.op = "createProduct" ->
            \/ \E i \in DOMAIN r.arg : \E v \in db.variants : v.sku = r.arg[i].sku
            \/ \E i, j \in DOMAIN r.arg : i # j /\ r.arg[i].sku = r.arg[j].sku
      [] r.op = "createVariant" -> \E v \in db.variants : v.sku = r.arg.sku
      [] r.op = "updateVariant" ->
            LET id == NumericAffinity(r.id) IN
            /\ HasRow(db.variants, id)
            /\ \E v \in db.variants : v.id # id /\ v.sku = r.arg.sku
      [] r.op = "createAdmin" -> \E a \in db.admins : a.email = r.arg
      [] OTHER -> FALSE

\* C17: a create or update request that collides with a stored unique value
\* is answered with an error status, and the database and the file are what
\* they were before the request.
C17_CollisionReportedNoWrite ==
    [][Collides(last', mem)
       => /\ last'.status \in {400, 500}
          /\ mem' = mem
          /\ file' = file]_vars

\* A product creation whose second variant repeats a stored SKU, after the
\* first was inserted inside the transaction
C17_Witness ==
    /\ last.op = "createProduct" /\ last.status = 500
    /\ Len(last.arg) = 2
    /\ "ROLLBACK" \in SeqToSet(last.events)
    /\ Count(last.events, "run") = 2
    /\ \E v \in mem.variants : v.sku = SkuA
    /\ ~\E v \in mem.variants : v.sku = SkuB

----------------------------------------------------------------------------
\* Requests that name a row that is not there

MaxAuditNotFound == 3

NextNotFound ==
    /\ AuditRoom(MaxAuditNotFound)
    /\ \/ Login(BootstrapEmail, BootstrapPassword)
       \/ \E sid \in Cookies : RequireAdminRejects("admin", sid)
       \/ \E sid \in Cookies :
             CreateProduct(sid, TitleBinder, TRUE, TRUE, 2, "draft", <<Variant(SkuA, 10)>>)
       \/ \E sid \in Cookies, idp \in {Text2, Text12} :
             UpdateCategory(sid, idp, [name |-> NameInk])
       \/ \E sid \in Cookies, idp \in {Text2, Text12} : DeleteCategory(sid, idp)
       \/ \E sid \in Cookies, idp \in {Text1, Text2} :
             UpdateProduct(sid, idp, [title |-> <<"T">>], FALSE)
       \/ \E sid \in Cookies, idp \in {Text1, Text2} : Publish(sid, idp, "published")
       \/ \E sid \in Cookies, idp \in {Text1, Text2} : DeleteProduct(sid, idp, FALSE)
       \/ \E sid \in Cookies, idp \in {Text1, Text2} :
             UpdateVariant(sid, idp, [stockQty |-> 3])
       \/ \E sid \in Cookies, idp \in {Text1, Text2} : DeleteVariant(sid, idp)
       \/ \E sid \in Cookies, idp \in {Text1, Text2} : AdjustStock(sid, idp, JsNum(3))
       \/ \E sid \in Cookies, idp \in {Text2} : DeleteAdmin(sid, idp)

SpecNotFound == Init /\ [][NextNotFound]_vars

\* The table whose row the request recorded in r names by its id
TargetRows(r, db) ==
    CASE r.op \in {"updateCategory", "deleteCategory"} -> db.categories
      [] r.op \in {"updateProduct", "publish", "deleteProduct"} -> db.products
      [] r.op \in {"updateVariant", "deleteVariant", "adjustStock"} -> db.variants
      [] r.op = "deleteAdmin" -> db.admins
      [] OTHER -> {}

\* C18: an update, publish, delete or stock adjustment whose id matches no
\* row of its table is answered 404, and database and file are unchanged.
C18_MissingTargetNotFound ==
    [][(/\ last'.op \in {"updateCategory", "deleteCategory", "updateProduct", "publish",
                          "deleteProduct", "updateVariant", "deleteVariant",
                          "adjustStock", "deleteAdmin"}
        /\ ~HasRow(TargetRows(last', mem), NumericAffinity(last'.id)))
       => /\ last'.status = 404
          /\ mem' = mem
          /\ file' = file]_vars

\* The same for every route but the deletion of an admin, which looks up no
\* row before its DELETE
C18_OtherRoutesNotFound ==
    [][(/\ last'.op \in {"updateCategory", "deleteCategory", "updateProduct", "publish",
                          "deleteProduct", "updateVariant", "deleteVariant",
                          "adjustStock"}
        /\ ~HasRow(TargetRows(last', mem), NumericAffinity(last'.id)))
       => /\ last'.status = 404
          /\ mem' = mem
          /\ file' = file]_vars

----------------------------------------------------------------------------
\* slugify on its own: texts over a small alphabet, slugified once and again

MaxSlugLen == 4
SlugAlphabet == {"A", "b", "1", " ", "-", "!"}
SlugInputs == UNION {[1..n -> SlugAlphabet] : n \in 0..MaxSlugLen}

\* The module is loaded and no database is open; last.id holds the text
InitSlug ==
    /\ mem = EmptyDb /\ file = EmptyDb
    /\ inTransaction = FALSE /\ foreignKeys = FALSE /\ fkDefault = FALSE
    /\ sessions = {} /\ uploads = {} /\ nextUpload = 1 /\ disk = NoLimit
    /\ \E x \in SlugInputs :
          last = [op |-> "text", admin |-> 0, id |-> x, status |-> 0,
                  events |-> <<>>, arg |-> x, ret |-> x, auditError |-> FALSE]

\* slugify(x)
SlugifyOnce ==
    /\ last.op = "text"
    /\ last' = [last EXCEPT !.op = "slugify", !.ret = slugify(last.arg)]
    /\ UNCHANGED <<mem, file, inTransaction, foreignKeys, fkDefault, sessions,
                   uploads, nextUpload, disk>>

\* slugify(slugify(x))
SlugifyAgain ==
    /\ last.op = "slugify"
    /\ last' = [last EXCEPT !.op = "slugify-again", !.arg = last.ret,
                            !.ret = slugify(last.ret)]
    /\ UNCHANGED <<mem, file, inTransaction, foreignKeys, fkDefault, sessions,
                   uploads, nextUpload, disk>>

NextSlug == SlugifyOnce \/ SlugifyAgain

SpecSlug == InitSlug /\ [][NextSlug]_vars

\* C21: slugify applied to a slug returns the slug; a slug holds only
\* lower-case letters, digits and hyphens, and no two hyphens in a row.
C21_SlugifyIdempotent ==
    /\ last.op = "slugify-again" => last.ret = last.arg
    /\ last.op = "slugify" =>
          /\ \A i \in 1..Len(last.ret) : IsSlugChar(last.ret[i]) /\ ~IsSpace(last.ret[i])
          /\ \A i \in 1..(Len(last.ret) - 1) : ~(last.ret[i] = "-" /\ last.ret[i + 1] = "-")

\* "A -b": the blank and the hyphen meet only after the blank was replaced
C21_Witness ==
    /\ last.op = "slugify-again"
    /\ last.id = <<"A", " ", "-", "b">>
    /\ last.arg = <<"a", "-", "b">>
    /\ last.ret = <<"a", "-", "b">>

----------------------------------------------------------------------------
\* The adapter's calls and the file

MaxAuditWrite == 3

NextWrite ==
    \/ Restart
    \/ /\ AuditRoom(MaxAuditWrite)
       /\ \/ Login(BootstrapEmail, BootstrapPassword)
          \/ \E sid \in Cookies : RequireAdminRejects("admin", sid)
          \/ DiskFills(1)
          \/ \E sid \in Cookies, name \in {NameInk, NameBinding} :
                CreateCategory(sid, name, <<>>)
          \/ \E sid \in Cookies,
                variantList \in {<<Variant(SkuA, 10)>>, <<Variant(SkuB, 1), Variant(SkuA, 2)>>} :
                CreateProduct(sid, TitleBinder, TRUE, TRUE, 0, "published", variantList)

SpecWrite == Init /\ [][NextWrite]_vars

\* Call i of ev is made while no transaction is active
OutsideTx(ev, i) ==
    ~\E j \in 1..(i - 1) :
        /\ ev[j] = "BEGIN"
        /\ \A k \in (j + 1)..(i - 1) : ev[k] \notin {"COMMIT", "ROLLBACK"}

\* Every exec and run made outside a transaction is followed at once by
\* the write of the file; no run inside one and no pragma is.
WriteThrough(ev) ==
    \A i \in 1..Len(ev) :
        /\ (ev[i] \in {"run", "exec"} /\ OutsideTx(ev, i))
              => i < Len(ev) /\ ev[i + 1] \in {"persist", "persist-error"}
        /\ (ev[i] = "pragma" \/ (ev[i] = "run" /\ ~OutsideTx(ev, i)))
              => i = Len(ev) \/ ev[i + 1] \notin {"persist", "persist-error",
                                                  "persist-in-tx"}

\* C22: outside a transaction every exec and every run is followed by the
\* write of the whole database to the file, and pragma by none; so a
\* request or start-up that begins with file and memory equal, and in which
\* no write of the file fails, ends with file and memory equal.
C22_WriteThrough ==
    [][/\ WriteThrough(last'.events)
       /\ inTransaction' = FALSE
       /\ (file = mem /\ "persist-error" \notin SeqToSet(last'.events)) => file' = mem']_vars

\* A start-up on a file that holds a category an admin entered: pragma,
\* then the exec of the schema with its write, then the bootstrap admin
C22_Witness ==
    /\ last.op = "restart"
    /\ Len(last.events) >= 3
    /\ SubSeq(last.events, 1, 3) = <<"pragma", "exec", "persist">>
    /\ \E c \in mem.categories : c.name = NameInk
    /\ file = mem

----------------------------------------------------------------------------
\* The adapter called directly: a wrapped function that calls another

MaxNestedRows == 15
NestedNames == {<<"T">>, <<"U">>, <<"V">>, NameBinding}

\* const put = db.transaction(name => insert.run(name, slug)); put(a)
WrappedInsert(a) ==
    /\ mem.seq.categories < MaxNestedRows
    /\ LET s1 == txEnter(Entry)
           s2 == run(s1, InsertCategory(s1.mem, s1.foreignKeys, a, slugify(a)))
           s3 == txLeave(Entry, s2)
       IN  /\ Leave([s3 EXCEPT !.thrown = FALSE])
           /\ Respond("wrapped", 0, <<>>, 200, s3, <<a>>, 0)
    /\ UNCHANGED <<sessions, uploads, nextUpload>>

\* const outer = db.transaction((a, b, c) => { insert.run(a); put(b);
\* insert.run(c); }); outer(a, b, c)
NestedInsert(a, b, c) ==
    /\ mem.seq.categories < MaxNestedRows
    /\ LET s1 == txEnter(Entry)
           s2 == run(s1, InsertCategory(s1.mem, s1.foreignKeys, a, slugify(a)))
           s3 == txEnter(s2)
           s4 == run(s3, InsertCategory(s3.mem, s3.foreignKeys, b, slugify(b)))
           s5 == txLeave(s2, s4)
           s6 == run(s5, InsertCategory(s5.mem, s5.foreignKeys, c, slugify(c)))
           s7 == txLeave(Entry, s6)
       IN  /\ Leave([s7 EXCEPT !.thrown = FALSE])
           /\ Respond("nested", 0, <<>>, 200, s7, <<a, b, c>>, 0)
    /\ UNCHANGED <<sessions, uploads, nextUpload>>

NextNested ==
    \/ \E a \in NestedNames : WrappedInsert(a)
    \/ \E a, b, c \in NestedNames : NestedInsert(a, b, c)

SpecNested == Init /\ [][NextNested]_vars

\* The names of arg are new to db and differ from each other
AllInsertable(arg, db) ==
    /\ \A i \in DOMAIN arg : ~\E x \in db.categories : x.name = arg[i]
    /\ \A i, j \in DOMAIN arg : i # j => arg[i] # arg[j]

\* C23: a wrapper invoked inside a transaction runs its function with no
\* BEGIN, COMMIT, ROLLBACK or file write of its own: the call has one BEGIN,
\* and either one COMMIT followed by the only write of the file, with the
\* rows of the outer and the inner function stored, or, when a statement of
\* either function fails, one ROLLBACK, no write, and database and file as
\* they were before the call.
C23_NestedWrapperIsTransparent ==
    [][last'.op = "nested"
       => LET ev == last'.events IN
          /\ Count(ev, "BEGIN") = 1 /\ ev[1] = "BEGIN"
          /\ Count(ev, "COMMIT") + Count(ev, "ROLLBACK") = 1
          /\ Count(ev, "persist-in-tx") = 0
          /\ inTransaction' = FALSE
          /\ IF AllInsertable(last'.arg, mem)
             THEN /\ ev = <<"BEGIN", "run", "run", "run", "COMMIT", "persist">>
                  /\ last'.status = 200
                  /\ \A i \in 1..3 : \E x \in mem'.categories :
                        x.name = last'.arg[i] /\ x.id = mem.seq.categories + i
                  /\ Cardinality(mem'.categories) = Cardinality(mem.categories) + 3
                  /\ file' = mem'
             ELSE /\ ev[Len(ev)] = "ROLLBACK" /\ ev[Len(ev) - 1] = "run-error"
                  /\ Count(ev, "persist") = 0
                  /\ last'.status = 500
                  /\ mem' = mem
                  /\ file' = file]_vars

\* The inner function fails after the outer function has written a row
C23_Witness ==
    /\ last.op = "nested" /\ last.status = 500
    /\ last.arg = <<<<"T">>, NameBinding, <<"U">>>>
    /\ last.events = <<"BEGIN", "run", "run-error", "ROLLBACK">>
    /\ ~\E x \in mem.categories : x.name = <<"T">>

----------------------------------------------------------------------------
\* Start-up on a database file that exists already

MaxAuditSeed == 2

\* Categories an admin left in the file: one entered by hand, two of the
\* seeded ones after an edit
LeftCategories ==
    {[id |-> 12, name |-> NameInk, slug |-> SlugInk],
     [id |-> 2, name |-> <<"B", "2">>, slug |-> SlugBinding],
     [id |-> 1, name |-> <<"L", "a", "m", "i", "n", "a", "t", "i", "o", "n">>,
      slug |-> <<"l", "a", "m">>]}

\* The files the process can find: none (a new database), or one whose
\* categories table was filled at an earlier run and then edited, down to
\* no row at all
SeedFiles ==
    {EmptyDb} \cup {[EmptyDb EXCEPT !.categories = cats, !.seq.categories = 12] :
                       cats \in SUBSET LeftCategories}

\* The process is not running; the file is on the disk
InitSeed ==
    /\ fkDefault \in BOOLEAN
    /\ file \in SeedFiles
    /\ mem = file
    /\ inTransaction = FALSE /\ foreignKeys = fkDefault
    /\ sessions = {} /\ uploads = {} /\ nextUpload = 1 /\ disk = NoLimit
    /\ last = [op |-> "stopped", admin |-> 0, id |-> <<>>, status |-> 0,
               events |-> <<>>, arg |-> 0, ret |-> 0, auditError |-> FALSE]

NextSeed ==
    \/ Restart
    \/ /\ last.op # "stopped"
       /\ AuditRoom(MaxAuditSeed)
       /\ \/ Login(BootstrapEmail, BootstrapPassword)
          \/ \E sid \in Cookies : RequireAdminRejects("admin", sid)
          \/ \E sid \in Cookies : CreateCategory(sid, NameBinding, <<>>)
          \/ \E sid \in Cookies, idp \in {Text1, Text12} : DeleteCategory(sid, idp)

SpecSeed == InitSeed /\ [][NextSeed]_vars

\* The rows seedCategories inserts into an empty table whose last id was n
SeededRows(n) ==
    {[id |-> n + i, name |-> seed[i].name, slug |-> seed[i].slug] : i \in 1..Len(seed)}

\* C25: a start-up on a file whose categories table has a row leaves the
\* categories as the file has them; on a file whose table is empty it
\* inserts the seed rows and nothing else; and a second start-up on the
\* result of the first changes no category.
C25_SeedOnlyWhenEmpty ==
    [][last'.op = "restart"
       => LET again == startServer(file', fkDefault') IN
          /\ IF file.categories # {}
             THEN mem'.categories = file.categories
             ELSE mem'.categories = SeededRows(file.seq.categories)
          /\ file'.categories = mem'.categories
          /\ again.mem.categories = mem'.categories
          /\ again.mem.seq.categories = mem'.seq.categories]_vars

\* A start-up on a file that holds one category, entered by an admin
C25_Witness ==
    /\ last.op = "restart"
    /\ mem.categories = {[id |-> 12, name |-> NameInk, slug |-> SlugInk]}
    /\ file = mem

\* The second start-up on a database that was new at the first
C25_WitnessTwice ==
    /\ last.op = "restart"
    /\ mem.categories = SeededRows(0)
    /\ Cardinality(mem.admins) = 1
    /\ "BEGIN" \notin SeqToSet(last.events)

----------------------------------------------------------------------------
\* The status of a product

MaxAuditStatus == 4

NextStatus ==
    /\ AuditRoom(MaxAuditStatus)
    /\ \/ Login(BootstrapEmail, BootstrapPassword)
       \/ \E sid \in Cookies : RequireAdminRejects("admin", sid)
       \/ \E sid \in Cookies, status \in {"", "published", "archived"} :
             CreateProduct(sid, TitleBinder, TRUE, TRUE, 0, status, <<>>)
       \/ \E sid \in Cookies, payload \in {[status |-> "archived"], [title |-> <<"T">>]} :
             UpdateProduct(sid, Text1, payload, FALSE)
       \/ \E sid \in Cookies, idp \in {Text1, Text2},
             status \in {"", "published", "archived"} : Publish(sid, idp, status)

SpecStatus == Init /\ [][NextStatus]_vars

\* C26: the status of every stored product is 'draft' or 'published'.
C26_StatusDraftOrPublished ==
    \A q \in mem.products : q.status \in {"draft", "published"}

\* The publish route on its own stores 'published' for exactly that
\* request and 'draft' for any other
C26_PublishStoresDraftOrPublished ==
    [][(last'.op = "publish" /\ last'.status = 200)
       => GetRow(mem'.products, NumericAffinity(last'.id)).status
             = (IF last'.arg = "published" THEN "published" ELSE "draft")]_vars

----------------------------------------------------------------------------
\* The adapter's flag after a wrapper, with engine calls that throw

\* put(a) with the engine calls of faults throwing
WrappedInsertFaulty(a, faults) ==
    /\ mem.seq.categories < MaxNestedRows
    /\ LET s0 == [Entry EXCEPT !.faults = faults]
           s1 == txEnter(s0)
           s2 == run(s1, InsertCategory(s1.mem, s1.foreignKeys, a, slugify(a)))
           s3 == txLeave(s0, s2)
       IN  /\ Leave([s3 EXCEPT !.thrown = FALSE])
           /\ Respond("wrapped", 0, <<>>, 200, s3, <<a>>, 0)
    /\ UNCHANGED <<sessions, uploads, nextUpload>>

\* insert.run(a), outside any wrapper
PlainInsert(a) ==
    /\ mem.seq.categories < MaxNestedRows
    /\ LET s1 == run(Entry, InsertCategory(mem, foreignKeys, a, slugify(a)))
       IN  /\ Leave([s1 EXCEPT !.thrown = FALSE])
           /\ Respond("run", 0, <<>>, 200, s1, <<a>>, 0)
    /\ UNCHANGED <<sessions, uploads, nextUpload>>

NextFlag ==
    \/ \E a \in NestedNames, faults \in SUBSET {"COMMIT", "ROLLBACK"} :
          WrappedInsertFaulty(a, faults)
    \/ \E a \in NestedNames : PlainInsert(a)
    \/ \E n \in {0, 1} : DiskFills(n)

SpecFlag == Init /\ [][NextFlag]_vars

\* C27: after a wrapper invocation has returned or thrown, the adapter's
\* flag is clear.
C27_FlagClearAfterWrapper ==
    last.op = "wrapped" => inTransaction = FALSE

\* The same for an invocation outside a transaction in which ROLLBACK does
\* not throw: fn, COMMIT or the write of the file fails, or nothing does
C27_FlagClearUnlessRollbackThrows ==
    [][(/\ last'.op = "wrapped"
        /\ ~inTransaction
        /\ "ROLLBACK-error" \notin SeqToSet(last'.events)
           \/ "COMMIT" \in SeqToSet(last'.events))
       => ~inTransaction']_vars

----------------------------------------------------------------------------
\* References between the tables

MaxAuditRefs == 3

NextRefs ==
    /\ AuditRoom(MaxAuditRefs)
    /\ \/ Login(BootstrapEmail, BootstrapPassword)
       \/ \E sid \in Cookies : RequireAdminRejects("admin", sid)
       \/ \E sid \in Cookies, categoryId \in {2, 12} :
             CreateProduct(sid, TitleBinder, TRUE, TRUE, categoryId, "draft",
                           <<Variant(SkuA, 10)>>)
       \/ \E sid \in Cookies, productId \in {1, 5} :
             CreateVariant(sid, [productId |-> productId, sku |-> SkuB])
       \/ \E sid \in Cookies : AdjustStock(sid, Text1, JsNum(3))
       \/ \E sid \in Cookies :
             UpdateProduct(sid, Text1, [categoryId |-> 2, variants |-> <<Variant(SkuC, 1)>>],
                           FALSE)
       \/ \E sid \in Cookies : DeleteProduct(sid, Text1, FALSE)
       \/ \E sid \in Cookies : DeleteCategory(sid, Text2)

SpecRefs == Init /\ [][NextRefs]_vars

\* C28: every variant belongs to a stored product, every inventory
\* adjustment to a stored variant, and every product has no category or a
\* stored one.
C28_ReferentialIntegrity ==
    /\ \A v \in mem.variants : v.product_id \in Ids(mem.products)
    /\ \A a \in mem.inventory : a.variant_id \in Ids(mem.variants)
    /\ \A q \in mem.products : q.category_id = NULL \/ q.category_id \in Ids(mem.categories)

\* The same while the connection enforces foreign keys after every write
C28_IntegrityUnderEnforcement ==
    fkDefault => C28_ReferentialIntegrity

----------------------------------------------------------------------------
\* C29: the admins table, which holds a row from the start, is never empty
\* after a request, and a deletion that was carried out leaves the row of
\* the admin who asked for it.
C29_AdminsNeverEmptied ==
    /\ mem.admins # {}
    /\ (last.op = "deleteAdmin" /\ last.status = 200) => HasRow(mem.admins, last.admin)

----------------------------------------------------------------------------
\* The image of a product across an update

MaxAuditImage == 4

NextImage ==
    /\ AuditRoom(MaxAuditImage)
    /\ \/ Login(BootstrapEmail, BootstrapPassword)
       \/ \E sid \in Cookies : RequireAdminRejects("admin", sid)
       \/ \E sid \in Cookies :
             CreateProduct(sid, TitleBinder, TRUE, TRUE, 2, "draft", <<Variant(SkuA, 10)>>)
       \/ \E sid \in Cookies, idp \in {Text1, Text2}, hasFile \in BOOLEAN,
             payload \in {[title |-> <<"T">>, categoryId |-> 2],
                          [categoryId |-> 2, variants |-> <<Variant(SkuC, 1)>>],
                          [categoryId |-> 2,
                           variants |-> <<Variant(SkuB, 1), Variant(SkuB, 2)>>]} :
             UpdateProduct(sid, idp, payload, hasFile)

SpecImage == Init /\ [][NextImage]_vars

\* C30: after an update of a stored product the row references an image
\* file that exists; the file the row referenced before is gone only if
\* the row references another one now; and when the update's transaction
\* was rolled back the row references the file it referenced before.
C30_ImageConsistentAcrossUpdate ==
    [][(last'.op = "updateProduct" /\ last'.status \in {200, 500})
       => LET id == NumericAffinity(last'.id)
              old == GetRow(mem.products, id).image
              new == GetRow(mem'.products, id).image
          IN  /\ old \in uploads => new \in uploads'
              /\ (old \in uploads /\ old \notin uploads') => new # old
              /\ last'.status = 500 => new = old]_vars

====
